---------------------------- MODULE Spec2Model ----------------------------
(***************************************************************************)
(* Collaborative sheet backend: the in-memory document store              *)
(* (backend/src/services/sheet.service.ts) and the batch enrichment        *)
(* pipeline (backend/src/services/data-enrichment.service.ts).             *)
(*                                                                         *)
(* Conventions of the model                                                *)
(*  - row indices are 0-based as in the code; rows[i] of the code is       *)
(*    rows[i + 1] here;                                                    *)
(*  - a JS object is an ordered list of [k, v] entries (Object.entries     *)
(*    order) or, for a stored row, a function from its keys to cells;      *)
(*  - cell values are strings; the JS boolean true is the value True and   *)
(*    null / undefined in an enrichment payload is the value Null;         *)
(*  - a cell's isLoading is a boolean, undefined read as FALSE (the code   *)
(*    reads it as `cell.isLoading || false`);                              *)
(*  - a column name is a list of one-character strings, so that the id     *)
(*    derivation is computed character by character;                       *)
(*  - the node event loop: every action is one macrotask run to            *)
(*    completion, including the promise continuations it makes runnable.   *)
(***************************************************************************)
EXTENDS Integers, Sequences, FiniteSets, TLC

VARIABLES
    sheets,      \* SheetService.sheets: sheet id -> Sheet
    sessions,    \* DataEnrichmentService.sessions (in creation order), each
                 \* with the state of its pending startEnrichment call
    nmut,        \* history: accepted mutating Document Store calls so far
    lastOp,      \* history: the last Document Store mutation executed
    appliedRows, \* history: rows marked by applyEnrichmentResults and whose
                 \* marker no updateCell has written since
    budget,      \* client commands the model still accepts
    options,     \* the options the clients of this run send with enrich-document
    reply,       \* history: how the last enrich-document command, or the last
                 \* call that named a document, was answered
    presence,    \* CollaborationService: its five presence maps
    event,       \* history: the last CollaborationService call and what it returned
    probe,       \* a tax-id handed to the validator, and the verdict
    sockets,     \* the gateway's client connections: the state of each and
                 \* (history) the joins it sent and has not taken back
    operations,  \* SheetService.operations: sheet id -> the operations recorded
    registry     \* OpenCNPJService: its requestQueue, the requests sent to the
                 \* registry and the calls of enrichCNPJ that are pending

storeVars == <<sheets, operations, sessions, nmut, lastOp, appliedRows, budget, options, reply>>

vars == <<sheets, operations, sessions, nmut, lastOp, appliedRows, budget, options, reply,
          presence, event, probe, sockets, registry>>

---------------------------------------------------------------------------
(* Bounds of the model *)

MaxCommands == 2     \* client commands of a run of Spec
MaxPipelineCommands == 1   \* enrich-document commands of a run of SpecPipeline

(* Program constants *)

DefaultBatchSize == 50
DefaultConcurrency == 3
InitialVersion == 1
MaxOperations == 1000

---------------------------------------------------------------------------
(* Values *)

True == "true"
Null == "<null>"
Loading == "loading"
NoUser == "-"
SystemUser == "system"
Doc == "d1"

Users == {"u1", "u2"}

(* string.trim() on the values of the model: the whitespace-only ones *)
Trim(v) == IF v \in {"", " "} THEN "" ELSE v

(* JS truthiness of a cell value that is present *)
Truthy(v) == v # "" /\ v # Null

Range(s) == {s[i] : i \in DOMAIN s}

Min(a, b) == IF a < b THEN a ELSE b
Max(a, b) == IF a > b THEN a ELSE b

Cell(value, isLoading, modifiedBy) ==
    [value |-> value, isLoading |-> isLoading, modifiedBy |-> modifiedBy]

(* row[k] = cell *)
Put(row, k, cell) ==
    [x \in (DOMAIN row) \cup {k} |-> IF x = k THEN cell ELSE row[x]]

EmptyRow == [x \in {} |-> Cell("", FALSE, NoUser)]

---------------------------------------------------------------------------
(* Column id derivation: name.toLowerCase().replace(/\s+/g, '_') *)

toLowerCase(c) ==
    CASE c = "A" -> "a" [] c = "C" -> "c" [] c = "F" -> "f"
      [] c = "J" -> "j" [] c = "N" -> "n" [] c = "P" -> "p"
      [] c = "T" -> "t" [] OTHER -> c

IsSpace(c) == c \in {" ", "\t"}

RECURSIVE NormalizeFrom(_, _)
NormalizeFrom(name, inRun) ==
    IF name = <<>> THEN ""
    ELSE IF IsSpace(Head(name))
         THEN (IF inRun THEN "" ELSE "_") \o NormalizeFrom(Tail(name), TRUE)
         ELSE toLowerCase(Head(name)) \o NormalizeFrom(Tail(name), FALSE)

ColumnId(name) == NormalizeFrom(name, FALSE)

ColumnIds(sheet) == [i \in DOMAIN sheet.columns |-> sheet.columns[i].id]

HasColumn(sheet, id) == \E i \in DOMAIN sheet.columns : sheet.columns[i].id = id

---------------------------------------------------------------------------
(* Document Store *)

isEditableField(key) ==
    key \in {"nome", "email", "telefone", "empresa", "status", "cnpj"}

(* detectColumnType on the values of the model: no number, e-mail, phone or
   date among them; the tax-id display pattern is dd.ddd.ddd/dddd-dd *)
detectColumnType(value) ==
    IF value \in {"11.222.333/0001-81", "11.444.777/0001-61"} THEN "cnpj" ELSE "text"

DefaultColumns ==
    << [id |-> "nome", type |-> "text", editable |-> TRUE],
       [id |-> "empresa", type |-> "text", editable |-> TRUE],
       [id |-> "cnpj", type |-> "cnpj", editable |-> TRUE],
       [id |-> "email", type |-> "email", editable |-> TRUE],
       [id |-> "telefone", type |-> "phone", editable |-> TRUE],
       [id |-> "status", type |-> "select", editable |-> TRUE] >>

detectColumns(data) ==
    IF Len(data) = 0 THEN DefaultColumns
    ELSE [i \in DOMAIN data[1] |->
            [id |-> data[1][i].k,
             type |-> detectColumnType(data[1][i].v),
             editable |-> isEditableField(data[1][i].k)]]

(* the value of key k in an entry list (the last entry wins), Null if absent *)
RECURSIVE Lookup(_, _)
Lookup(entries, k) ==
    IF entries = <<>> THEN Null
    ELSE IF entries[Len(entries)].k = k THEN entries[Len(entries)].v
    ELSE Lookup(SubSeq(entries, 1, Len(entries) - 1), k)

HasKey(entries, k) == \E i \in DOMAIN entries : entries[i].k = k

convertDataToRows(data, columns) ==
    [r \in DOMAIN data |->
        [c \in {columns[i].id : i \in {j \in DOMAIN columns : HasKey(data[r], columns[j].id)}} |->
            Cell(Lookup(data[r], c), FALSE, SystemUser)]]

EditableIds(columns) ==
    LET ed == SelectSeq(columns, LAMBDA col : col.editable)
    IN  [i \in DOMAIN ed |-> ed[i].id]

createSheet(initialData) ==
    LET columns == detectColumns(initialData)
        rows == convertDataToRows(initialData, columns)
    IN  [columns |-> columns,
         rows |-> rows,
         totalRows |-> Len(rows),
         totalColumns |-> Len(columns),
         version |-> InitialVersion,
         editableFields |-> EditableIds(columns)]

(* an entry of the operation log; the model keeps its type and the
   document version it was recorded with, which tells the entries apart *)
Operation(type, version) == [type |-> type, version |-> version]

(* a variant that drops the newest entries when the log is full *)
recordOperation_KeepOldest(log, operation) ==
    LET pushed == Append(log, operation)
    IN  IF Len(pushed) > MaxOperations THEN SubSeq(pushed, 1, MaxOperations) ELSE pushed

(* recordOperation: push, then splice(0, length - 1000) when over 1000 *)
recordOperation(log, operation) ==
    LET pushed == Append(log, operation)
    IN  IF Len(pushed) > MaxOperations
        THEN SubSeq(pushed, Len(pushed) - MaxOperations + 1, Len(pushed))
        ELSE pushed

(* Array.prototype.slice(begin): a negative begin counts from the end *)
slice(arr, begin) ==
    LET k == IF begin < 0 THEN Max(Len(arr) + begin, 0) ELSE Min(begin, Len(arr))
    IN  SubSeq(arr, k + 1, Len(arr))

reverse(arr) == [i \in 1..Len(arr) |-> arr[Len(arr) + 1 - i]]

(* getOperationHistory: operations.slice(-limit).reverse() *)
getOperationHistory(log, limit) == reverse(slice(log, -limit))

(* the column_insert operations of k successive addColumn calls on a
   document of version v *)
RECURSIVE recordColumnInserts(_, _, _)
recordColumnInserts(log, v, k) ==
    IF k = 0 THEN log
    ELSE recordOperation(recordColumnInserts(log, v, k - 1),
                         Operation("column_insert", v + k))

(* a variant that pads the document with rows holding a blank tax-id *)
GrowRows_Padded(rows, rowIndex) ==
    [i \in 1..Max(Len(rows), rowIndex + 1) |->
        IF i <= Len(rows) THEN rows[i] ELSE Put(EmptyRow, "cnpj", Cell(" ", FALSE, NoUser))]

(* while (sheet.rows.length <= rowIndex) sheet.rows.push({}) *)
GrowRows(rows, rowIndex) ==
    [i \in 1..Max(Len(rows), rowIndex + 1) |-> IF i <= Len(rows) THEN rows[i] ELSE EmptyRow]

(* a variant that merges: a cell another user wrote keeps its content *)
updateCell_KeepForeign(sheet, rowIndex, columnId, value, userId) ==
    LET grown == GrowRows(sheet.rows, rowIndex)
        row == grown[rowIndex + 1]
        foreign == columnId \in DOMAIN row /\ row[columnId].modifiedBy # userId
    IN  [sheet EXCEPT
            !.rows = [grown EXCEPT ![rowIndex + 1] =
                         IF foreign THEN row
                         ELSE Put(row, columnId, Cell(value, FALSE, userId))],
            !.version = sheet.version + 1,
            !.totalRows = Max(sheet.totalRows, rowIndex + 1)]

updateCell(sheet, rowIndex, columnId, value, userId) ==
    LET grown == GrowRows(sheet.rows, rowIndex)
    IN  [sheet EXCEPT
            !.rows = [grown EXCEPT ![rowIndex + 1] =
                         Put(grown[rowIndex + 1], columnId, Cell(value, FALSE, userId))],
            !.version = sheet.version + 1,
            !.totalRows = Max(sheet.totalRows, rowIndex + 1)]

RowFromEntries(entries, userId) ==
    [c \in {entries[i].k : i \in DOMAIN entries} |-> Cell(Lookup(entries, c), FALSE, userId)]

(* a variant that inserts the new row in front of the others *)
addRow_Prepend(sheet, data, userId) ==
    [sheet EXCEPT
        !.rows = <<RowFromEntries(data, userId)>> \o sheet.rows,
        !.totalRows = Len(sheet.rows) + 1,
        !.version = sheet.version + 1]

addRow(sheet, data, userId) ==
    [sheet EXCEPT
        !.rows = Append(sheet.rows, RowFromEntries(data, userId)),
        !.totalRows = Len(sheet.rows) + 1,
        !.version = sheet.version + 1]

addColumn(sheet, column) ==
    LET newColumn == [id |-> ColumnId(column.name), type |-> column.type,
                      editable |-> column.editable]
    IN  [sheet EXCEPT
            !.columns = Append(sheet.columns, newColumn),
            !.totalColumns = Len(sheet.columns) + 1,
            !.version = sheet.version + 1,
            !.editableFields = IF newColumn.editable
                               THEN Append(sheet.editableFields, newColumn.id)
                               ELSE sheet.editableFields]

(* a variant that creates the column without counting it *)
ApplyField_NoCount(sheet, rowIndex, field) ==
    IF field.v = Null THEN sheet
    ELSE LET withCol ==
                 IF HasColumn(sheet, field.k) THEN sheet
                 ELSE [sheet EXCEPT
                          !.columns = Append(sheet.columns,
                              [id |-> field.k, type |-> "enriched", editable |-> FALSE])]
         IN  [withCol EXCEPT !.rows[rowIndex + 1] =
                  Put(withCol.rows[rowIndex + 1], field.k, Cell(field.v, FALSE, NoUser))]

(* one enriched field of one result: lines 268-285 *)
ApplyField(sheet, rowIndex, field) ==
    IF field.v = Null THEN sheet
    ELSE LET withCol ==
                 IF HasColumn(sheet, field.k) THEN sheet
                 ELSE [sheet EXCEPT
                          !.columns = Append(sheet.columns,
                              [id |-> field.k, type |-> "enriched", editable |-> FALSE]),
                          !.totalColumns = Len(sheet.columns) + 1]
         IN  [withCol EXCEPT !.rows[rowIndex + 1] =
                  Put(withCol.rows[rowIndex + 1], field.k, Cell(field.v, FALSE, NoUser))]

RECURSIVE ApplyFields(_, _, _)
ApplyFields(sheet, rowIndex, fields) ==
    IF fields = <<>> THEN sheet
    ELSE ApplyFields(ApplyField(sheet, rowIndex, Head(fields)), rowIndex, Tail(fields))

(* a variant that marks only the rows whose lookup succeeded *)
ApplyResult_MarkSuccessOnly(sheet, result) ==
    IF result.rowIndex >= 0 /\ result.rowIndex < Len(sheet.rows)
    THEN LET s1 == ApplyFields(sheet, result.rowIndex, result.enrichedFields)
             r1 == Put(s1.rows[result.rowIndex + 1], "_enriched", Cell(True, FALSE, NoUser))
             r2 == Put(r1, "_enriched_at", Cell("now", FALSE, NoUser))
         IN  IF HasKey(result.enrichedFields, "error") THEN s1
             ELSE [s1 EXCEPT !.rows[result.rowIndex + 1] = r2]
    ELSE sheet

(* one result: lines 261-291 *)
ApplyResult(sheet, result) ==
    IF result.rowIndex >= 0 /\ result.rowIndex < Len(sheet.rows)
    THEN LET s1 == ApplyFields(sheet, result.rowIndex, result.enrichedFields)
             r1 == Put(s1.rows[result.rowIndex + 1], "_enriched", Cell(True, FALSE, NoUser))
             r2 == Put(r1, "_enriched_at", Cell("now", FALSE, NoUser))
         IN  [s1 EXCEPT !.rows[result.rowIndex + 1] = r2]
    ELSE sheet

RECURSIVE ApplyResults(_, _)
ApplyResults(sheet, results) ==
    IF results = <<>> THEN sheet
    ELSE ApplyResults(ApplyResult(sheet, Head(results)), Tail(results))

applyEnrichmentResults(sheet, results) ==
    LET s1 == ApplyResults(sheet, results)
    IN  [s1 EXCEPT !.version = s1.version + 1]

(* rows.forEach x columnIds.forEach: row[columnId] = {value:'loading', isLoading:true} *)
RECURSIVE MarkRow(_, _)
MarkRow(row, columnIds) ==
    IF columnIds = <<>> THEN row
    ELSE MarkRow(Put(row, Head(columnIds), Cell(Loading, TRUE, NoUser)), Tail(columnIds))

(* a variant that forgets the version bump *)
markCellsAsLoading_NoBump(sheet, rowIndices, columnIds) ==
    [sheet EXCEPT
        !.rows = [i \in DOMAIN sheet.rows |->
                     IF (i - 1) \in Range(rowIndices)
                     THEN MarkRow(sheet.rows[i], columnIds)
                     ELSE sheet.rows[i]]]

markCellsAsLoading(sheet, rowIndices, columnIds) ==
    [sheet EXCEPT
        !.rows = [i \in DOMAIN sheet.rows |->
                     IF (i - 1) \in Range(rowIndices)
                     THEN MarkRow(sheet.rows[i], columnIds)
                     ELSE sheet.rows[i]],
        !.version = sheet.version + 1]

hasCnpj(row, cnpjField) ==
    /\ cnpjField \in DOMAIN row
    /\ Truthy(row[cnpjField].value)
    /\ Trim(row[cnpjField].value) # ""

isEnriched(row) == "_enriched" \in DOMAIN row /\ row["_enriched"].value = True

(* a variant that selects again the rows that carry an error payload *)
getUnenrichedRows_RetryFailed(sheet, cnpjField) ==
    LET idx == [i \in DOMAIN sheet.rows |-> i - 1]
    IN  SelectSeq(idx, LAMBDA i : hasCnpj(sheet.rows[i + 1], cnpjField)
                                  /\ (~isEnriched(sheet.rows[i + 1])
                                        \/ "error" \in DOMAIN sheet.rows[i + 1]))

(* the indices of the rows getUnenrichedRows returns, in row order *)
getUnenrichedRows(sheet, cnpjField) ==
    LET idx == [i \in DOMAIN sheet.rows |-> i - 1]
    IN  SelectSeq(idx, LAMBDA i : hasCnpj(sheet.rows[i + 1], cnpjField)
                                  /\ ~isEnriched(sheet.rows[i + 1]))

(* a variant that counts every unmarked row as unenriched, with or without
   a tax-id *)
getEnrichmentStats_CountAll(sheet, cnpjField) ==
    LET withCnpj == {i \in DOMAIN sheet.rows : hasCnpj(sheet.rows[i], cnpjField)}
    IN  [total |-> Len(sheet.rows),
         enriched |-> Cardinality({i \in withCnpj : isEnriched(sheet.rows[i])}),
         unenriched |-> Cardinality({i \in DOMAIN sheet.rows : ~isEnriched(sheet.rows[i])}),
         withCnpj |-> Cardinality(withCnpj)]

(* getEnrichmentStats: the three counters after the forEach over the rows *)
getEnrichmentStats(sheet, cnpjField) ==
    LET withCnpj == {i \in DOMAIN sheet.rows : hasCnpj(sheet.rows[i], cnpjField)}
    IN  [total |-> Len(sheet.rows),
         enriched |-> Cardinality({i \in withCnpj : isEnriched(sheet.rows[i])}),
         unenriched |-> Cardinality({i \in withCnpj : ~isEnriched(sheet.rows[i])}),
         withCnpj |-> Cardinality(withCnpj)]

AnyLoading(sheet) ==
    \E i \in DOMAIN sheet.rows : \E c \in DOMAIN sheet.rows[i] : sheet.rows[i][c].isLoading

---------------------------------------------------------------------------
(* Enrichment pipeline *)

(* getEnrichmentColumns('company'); the model keeps two of the fourteen
   output columns, all of which are handled alike *)
getEnrichmentColumns(enrichmentType) ==
    IF enrichmentType = "company"
    THEN << [id |-> "company_name",
             name |-> <<"C","o","m","p","a","n","y"," ","N","a","m","e">>, type |-> "text"],
            [id |-> "trade_name",
             name |-> <<"T","r","a","d","e"," ","N","a","m","e">>, type |-> "text"] >>
    ELSE << >>

(* What the registry lookup of one item does: "ok" returns the registry's
   record of the tax-id, "fail" throws (invalid format, not found, rate
   limit, upstream error) *)
Outcomes == {"ok", "fail"}

(* The registry's record of a tax-id: one company of the model has no trade
   name (nome_fantasia null) *)
RegistryRecord(cnpj) ==
    [cnpj |-> cnpj,
     razaoSocial |-> "ACME LTDA",
     nomeFantasia |-> IF cnpj = "11.444.777/0001-61" THEN Null ELSE "ACME"]

(* enrichCompanyWithCNPJ: the payload built from the registry record; the
   model keeps the keys cnpj, company_name, trade_name and success *)
enrichCompanyWithCNPJ(cnpj, outcome) ==
    IF outcome = "fail"
    THEN [threw |-> TRUE, fields |-> << >>]
    ELSE LET enrichmentResult == RegistryRecord(cnpj)
         IN  [threw |-> FALSE,
              fields |-> << [k |-> "cnpj", v |-> enrichmentResult.cnpj],
                            [k |-> "company_name", v |-> enrichmentResult.razaoSocial],
                            [k |-> "trade_name", v |-> enrichmentResult.nomeFantasia],
                            [k |-> "success", v |-> True] >>]

ErrorFields ==
    << [k |-> "error", v |-> True],
       [k |-> "error_message", v |-> "lookup failed"],
       [k |-> "error_code", v |-> "ENRICHMENT_ERROR"] >>

(* a variant without the catch: the failure of a lookup propagates *)
performEnrichment_Rethrow(cnpj, outcome) == enrichCompanyWithCNPJ(cnpj, outcome)

(* performEnrichment: a failed lookup is caught and returned as a payload *)
performEnrichment(cnpj, outcome) ==
    LET r == enrichCompanyWithCNPJ(cnpj, outcome)
    IN  IF r.threw THEN [threw |-> FALSE, fields |-> ErrorFields] ELSE r

(* createBatches: batch b (1-based) holds the items at the 0-based positions
   (b-1)*batchSize .. min(b*batchSize, n) - 1 of the selected rows *)
NumBatches(n, batchSize) == (n + batchSize - 1) \div batchSize

BatchLen(n, batchSize, b) == Min(batchSize, n - (b - 1) * batchSize)

createBatches(n, batchSize) ==
    [b \in 1..NumBatches(n, batchSize) |->
        [j \in 1..BatchLen(n, batchSize, b) |-> (b - 1) * batchSize + (j - 1)]]

(* a variant that truncates instead of rounding *)
Percentage_Truncated(processed, total) == (100 * processed) \div total

(* Math.round((processed / total) * 100) *)
Percentage(processed, total) == (200 * processed + total) \div (2 * total)

(* a variant that takes the position in the list of selected rows (the
   code's fallback when no originalIndices are given) *)
OriginalIndex_Position(sess, b, pos) == (b - 1) * sess.batchSize + pos

(* originalIndices[(batchNumber - 1) * batchSize + i] *)
OriginalIndex(sess, b, pos) == sess.indices[(b - 1) * sess.batchSize + pos + 1]

Settled(sess, b) == sess.batch[b].state \in {"fulfilled", "rejected"}

InFlight(sess) == {b \in DOMAIN sess.batch : sess.batch[b].state = "running"}

(* a variant without the status test at the entry of processBatch *)
processBatch_NoEntryTest(sess, b) ==
    [sess EXCEPT !.batch[b].state = "running",
                 !.batch[b].pos = 0,
                 !.sent[OriginalIndex(sess, b, 0)] = @ + 1]

(* processBatch, from its call to its first suspension: lines 175-194 *)
processBatch(sess, b) ==
    IF sess.status = "cancelled"
    THEN [sess EXCEPT !.batch[b].state = "fulfilled"]
    ELSE [sess EXCEPT !.batch[b].state = "running",
                      !.batch[b].pos = 0,
                      !.sent[OriginalIndex(sess, b, 0)] = @ + 1]

(* startEnrichment after the pipeline returned: lines 87-93 *)
markCompleted(sess) ==
    [sess EXCEPT !.status = "completed", !.percentage = 100, !.pc = "done"]

(* startEnrichment's catch: lines 96-104 *)
markError(sess) ==
    [sess EXCEPT !.status = "error", !.pc = "done"]

FirstSettled(sess) ==
    LET idx == {k \in DOMAIN sess.promises : Settled(sess, sess.promises[k])}
    IN  IF idx = {} THEN 0 ELSE CHOOSE k \in idx : \A m \in idx : k <= m

(* processBatchesInParallel from the top of loop iteration sess.i (0-based)
   until the call suspends or startEnrichment returns: lines 133-163 and
   startEnrichment lines 87-104.  afterRace: `await Promise.race` of this
   iteration has already resumed *)
RECURSIVE processBatchesInParallel(_, _)
processBatchesInParallel(sess, afterRace) ==
    IF sess.i >= Len(sess.batches)
    THEN \* await Promise.all(processingPromises)
         IF \E k \in DOMAIN sess.promises : sess.batch[sess.promises[k]].state = "rejected"
         THEN markError(sess)
         ELSE IF \A k \in DOMAIN sess.promises : sess.batch[sess.promises[k]].state = "fulfilled"
         THEN markCompleted(sess)
         ELSE [sess EXCEPT !.pc = "all"]
    ELSE IF ~afterRace /\ sess.status = "cancelled"
    THEN markCompleted(sess)
    ELSE IF ~afterRace /\ Len(sess.promises) >= sess.concurrency
    THEN \* await Promise.race(processingPromises)
         LET k == FirstSettled(sess)
         IN  IF k = 0 THEN [sess EXCEPT !.pc = "race"]
             ELSE IF sess.batch[sess.promises[k]].state = "rejected" THEN markError(sess)
             ELSE \* processingPromises.splice(0, 1)
                  processBatchesInParallel([sess EXCEPT !.promises = Tail(sess.promises)], TRUE)
    ELSE LET b == sess.i + 1
             started == processBatch(sess, b)
         IN  processBatchesInParallel(
                 [started EXCEPT !.promises = Append(started.promises, b),
                                 !.i = sess.i + 1], FALSE)

(* startEnrichment up to its first suspension: lines 53-85, 125-128 *)
startEnrichment(data, indices, batchSizeOpt, concurrencyOpt) ==
    LET batchSize == IF batchSizeOpt = 0 THEN DefaultBatchSize ELSE batchSizeOpt
        concurrency == IF concurrencyOpt = 0 THEN DefaultConcurrency ELSE concurrencyOpt
        batches == createBatches(Len(data), batchSize)
        session ==
            [status |-> "processing", processed |-> 0, total |-> Len(data),
             percentage |-> 0, currentBatch |-> 0, results |-> << >>,
             data |-> data, indices |-> indices, batchSize |-> batchSize, concurrency |-> concurrency,
             batches |-> batches,
             batch |-> [b \in DOMAIN batches |-> [state |-> "idle", pos |-> 0, results |-> << >>]],
             promises |-> << >>, i |-> 0, pc |-> "loop",
             emitted |-> << >>, sent |-> [r \in Range(indices) |-> 0], failed |-> {},
             cancelReq |-> FALSE, cancelPending |-> FALSE, cancelAt |-> -1,
             source |-> << >>, id |-> << >>]
    IN  processBatchesInParallel(session, FALSE)

(* processBatch resumed by the return of its outstanding lookup: lines
   194-216.  Gives the session and the results handed to onPartialResult *)
resumeBatch(sess, b, outcome) ==
    LET pos == sess.batch[b].pos
        item == sess.data[(b - 1) * sess.batchSize + pos + 1]
        r == performEnrichment(item, outcome)
        rowIndex == OriginalIndex(sess, b, pos)
    IN  IF r.threw
        THEN [sess |-> [sess EXCEPT !.batch[b].state = "rejected",
                                    !.failed = sess.failed \cup {rowIndex}],
              partial |-> << >>]
        ELSE LET enrichedResults == Append(sess.batch[b].results,
                                        [rowIndex |-> rowIndex, data |-> item,
                                         enrichedFields |-> r.fields])
                 processed == sess.processed + 1
                 percentage == Percentage(processed, sess.total)
                 s1 == [sess EXCEPT
                           !.batch[b].results = enrichedResults,
                           !.processed = processed,
                           !.percentage = percentage,
                           !.currentBatch = b,
                           !.emitted = Append(sess.emitted,
                               [processed |-> processed, percentage |-> percentage,
                                status |-> sess.status]),
                           !.failed = IF outcome = "fail" THEN sess.failed \cup {rowIndex}
                                      ELSE sess.failed]
             IN  IF pos + 1 < Len(sess.batches[b]) /\ sess.status # "cancelled"
                 THEN [sess |-> [s1 EXCEPT !.batch[b].pos = pos + 1,
                                           !.sent[OriginalIndex(sess, b, pos + 1)] = @ + 1],
                       partial |-> << >>]
                 ELSE [sess |-> [s1 EXCEPT !.batch[b].state = "fulfilled",
                                           !.results = s1.results \o enrichedResults],
                       partial |-> enrichedResults]

(* processBatch resumed by the return of its outstanding lookup when the
   onProgress callback then throws: the result is kept in the batch's local
   list and the progress counters are already advanced (lines 196-205), the
   catch of lines 217-220 rethrows and the batch's promise is rejected *)
progressCallbackThrows(sess, b) ==
    LET pos == sess.batch[b].pos
        item == sess.data[(b - 1) * sess.batchSize + pos + 1]
        r == performEnrichment(item, "ok")
        processed == sess.processed + 1
    IN  [sess EXCEPT
            !.batch[b].results = Append(@, [rowIndex |-> OriginalIndex(sess, b, pos),
                                            data |-> item, enrichedFields |-> r.fields]),
            !.batch[b].state = "rejected",
            !.processed = processed,
            !.percentage = Percentage(processed, sess.total),
            !.currentBatch = b]

(* a variant in which the final Promise.all is never resumed *)
resumeDispatcher_RaceOnly(sess, b) ==
    IF ~Settled(sess, b) \/ b \notin Range(sess.promises) THEN sess
    ELSE IF sess.pc = "race"
    THEN IF sess.batch[b].state = "rejected" THEN markError(sess)
         ELSE processBatchesInParallel([sess EXCEPT !.promises = Tail(sess.promises)], TRUE)
    ELSE sess

(* the continuation of processBatchesInParallel made runnable by batch b
   settling *)
resumeDispatcher(sess, b) ==
    IF ~Settled(sess, b) \/ b \notin Range(sess.promises) THEN sess
    ELSE IF sess.pc = "race"
    THEN IF sess.batch[b].state = "rejected" THEN markError(sess)
         ELSE processBatchesInParallel([sess EXCEPT !.promises = Tail(sess.promises)], TRUE)
    ELSE IF sess.pc = "all"
    THEN processBatchesInParallel(sess, FALSE)
    ELSE sess

(* a variant that also discards what the session has recorded *)
cancelEnrichment_Retract(sess) ==
    [sess EXCEPT !.status = "cancelled",
                 !.results = << >>,
                 !.processed = 0,
                 !.cancelReq = TRUE,
                 !.cancelPending = sess.cancelPending \/ sess.pc # "done",
                 !.cancelAt = IF sess.cancelPending \/ sess.pc = "done" THEN @ ELSE sess.i]

cancelEnrichment(sess) ==
    [sess EXCEPT !.status = "cancelled",
                 !.cancelReq = TRUE,
                 !.cancelPending = sess.cancelPending \/ sess.pc # "done",
                 \* history: the batches dispatched when the first cancellation
                 \* of the pending call arrived
                 !.cancelAt = IF sess.cancelPending \/ sess.pc = "done" THEN @ ELSE sess.i]

(* a variant that adds every output column without looking for it first *)
RECURSIVE preCreateColumns_Always(_, _)
preCreateColumns_Always(sheet, columns) ==
    IF columns = <<>> THEN sheet
    ELSE preCreateColumns_Always(
             addColumn(sheet, [name |-> Head(columns).name, type |-> Head(columns).type,
                               editable |-> TRUE]),
             Tail(columns))

(* enrichSheet lines 466-481: create the output columns that do not exist *)
RECURSIVE preCreateColumns(_, _)
preCreateColumns(sheet, columns) ==
    IF columns = <<>> THEN sheet
    ELSE preCreateColumns(
             IF HasColumn(sheet, Head(columns).id) THEN sheet
             ELSE addColumn(sheet, [name |-> Head(columns).name, type |-> Head(columns).type,
                                    editable |-> TRUE]),
             Tail(columns))

(* getUnenrichedRows' simpleRow: the values of a row's cells *)
SimpleRow(row) == [c \in DOMAIN row |-> row[c].value]

(* getSheetData(sheetId).rows: each cell as {value, isLoading} *)
getSheetData(sheet) ==
    [columns |-> sheet.columns,
     rows |-> [i \in DOMAIN sheet.rows |->
                  [c \in DOMAIN sheet.rows[i] |->
                      [value |-> sheet.rows[i][c].value,
                       isLoading |-> sheet.rows[i][c].isLoading]]]]

(* JSON.stringify of a list of rows, as the list of each row's members
   (key, text of the value); the keys of a row keep their insertion order,
   which the model does not track.  A row of getUnenrichedRows has the bare
   values, a row of getSheetData has {value, isLoading} objects *)
stringifyValues(rows) ==
    [i \in DOMAIN rows |-> {<<c, <<rows[i][c]>> >> : c \in DOMAIN rows[i]}]

stringifyCells(rows) ==
    [i \in DOMAIN rows |->
        {<<c, <<"{", "value", ":", rows[i][c].value, ",", "isLoading", ":",
                IF rows[i][c].isLoading THEN "true" ELSE "false", "}">> >> :
            c \in DOMAIN rows[i]}]

(* the first 8 hex digits of the md5 of a text, taken as collision-free:
   the digest stands for the text it was computed from *)
md5(text) == <<"md5", text>>

(* generateSessionId: <md5 of JSON.stringify(data)>-<md5 of the type>-<Date.now()>,
   given the JSON text of the data *)
generateSessionId(json, enrichmentType, timestamp) ==
    [dataHash |-> md5(json), typeHash |-> md5(enrichmentType), timestamp |-> timestamp]

(* enrichSheet lines 464, 518-529: startEnrichment on the selected rows'
   data, with their document row indices as options.originalIndices, under
   the session id generated from that data at time `now`.
   source (history): the tax-id read from each selected document row *)
StartPass(sheet, unenrichedRows, opts, now) ==
    [startEnrichment(
         [i \in DOMAIN unenrichedRows |-> sheet.rows[unenrichedRows[i] + 1]["cnpj"].value],
         unenrichedRows, opts.batchSize, opts.concurrency)
     EXCEPT !.source = [r \in Range(unenrichedRows) |-> sheet.rows[r + 1]["cnpj"].value],
            !.id = generateSessionId(
                       stringifyValues([i \in DOMAIN unenrichedRows |->
                                           SimpleRow(sheet.rows[unenrichedRows[i] + 1])]),
                       "company", now)]

(* a variant without the "nothing to enrich" rejection *)
enrichSheet_NoRejection(sheet, opts, now) ==
    LET unenrichedRows == getUnenrichedRows(sheet, "cnpj")
        enrichmentColumns == getEnrichmentColumns("company")
        withColumns == preCreateColumns(sheet, enrichmentColumns)
        marked == markCellsAsLoading(withColumns, unenrichedRows,
                      [i \in DOMAIN enrichmentColumns |-> enrichmentColumns[i].id])
    IN  [threw |-> FALSE, sheet |-> marked,
         started |-> << StartPass(sheet, unenrichedRows, opts, now) >>]

(* enrichSheet up to its first suspension: the outcome of the call, the
   document it leaves and the session it starts (none when it throws) *)
enrichSheet(sheet, opts, now) ==
    LET unenrichedRows == getUnenrichedRows(sheet, "cnpj")
        enrichmentColumns == getEnrichmentColumns("company")
        withColumns == preCreateColumns(sheet, enrichmentColumns)
        marked == markCellsAsLoading(withColumns, unenrichedRows,
                      [i \in DOMAIN enrichmentColumns |-> enrichmentColumns[i].id])
    IN  IF Len(unenrichedRows) = 0
        THEN [threw |-> TRUE, sheet |-> sheet, started |-> << >>]
        ELSE [threw |-> FALSE, sheet |-> marked,
              started |-> << StartPass(sheet, unenrichedRows, opts, now) >>]

---------------------------------------------------------------------------
(* Tax-id validator (OpenCNPJService).  A tax-id string is a list of
   one-character strings *)

Digits == {"0", "1", "2", "3", "4", "5", "6", "7", "8", "9"}

(* parseInt of one digit character *)
parseInt(c) ==
    CASE c = "0" -> 0 [] c = "1" -> 1 [] c = "2" -> 2 [] c = "3" -> 3 [] c = "4" -> 4
      [] c = "5" -> 5 [] c = "6" -> 6 [] c = "7" -> 7 [] c = "8" -> 8 [] c = "9" -> 9

(* cnpj.replace(/\D/g, '') *)
CleanCNPJ(cnpj) == SelectSeq(cnpj, LAMBDA c : c \in Digits)

weights1 == <<5, 4, 3, 2, 9, 8, 7, 6, 5, 4, 3, 2>>
weights2 == <<6, 5, 4, 3, 2, 9, 8, 7, 6, 5, 4, 3, 2>>

(* sum of parseInt(cnpj[i]) * weights[i] over the first n characters *)
RECURSIVE WeightedSum(_, _, _)
WeightedSum(cnpj, weights, n) ==
    IF n = 0 THEN 0
    ELSE parseInt(cnpj[n]) * weights[n] + WeightedSum(cnpj, weights, n - 1)

(* a variant that stops after the first check digit *)
validateCNPJCheckDigits_FirstOnly(cnpj) ==
    LET sum1 == WeightedSum(cnpj, weights1, 12)
        digit1 == IF sum1 % 11 < 2 THEN 0 ELSE 11 - (sum1 % 11)
    IN  digit1 = parseInt(cnpj[13])

validateCNPJCheckDigits(cnpj) ==
    LET sum1 == WeightedSum(cnpj, weights1, 12)
        digit1 == IF sum1 % 11 < 2 THEN 0 ELSE 11 - (sum1 % 11)
        sum2 == WeightedSum(cnpj, weights2, 13)
        digit2 == IF sum2 % 11 < 2 THEN 0 ELSE 11 - (sum2 % 11)
    IN  IF digit1 # parseInt(cnpj[13]) THEN FALSE
        ELSE digit2 = parseInt(cnpj[14])

validateCNPJFormat(cnpj) ==
    LET cleanCNPJ == CleanCNPJ(cnpj)
    IN  IF Len(cleanCNPJ) # 14 THEN FALSE
        ELSE IF \A i \in 2..14 : cleanCNPJ[i] = cleanCNPJ[1] THEN FALSE
        ELSE validateCNPJCheckDigits(cleanCNPJ)

(* enrichCNPJ up to the request: the validation error it throws, or the
   request it goes on to make *)
enrichCNPJ(cnpj) ==
    IF ~validateCNPJFormat(cnpj) THEN "INVALID_FORMAT" ELSE "requested"

(* A JS Map is a function from the keys it holds *)

EmptyMap == [x \in {} |-> 0]

MapSet(m, k, v) == [x \in (DOMAIN m) \cup {k} |-> IF x = k THEN v ELSE m[x]]

MapDelete(m, k) == [x \in (DOMAIN m) \ {k} |-> m[x]]

(* formatCNPJForAPI: the digits of the input laid out dd.ddd.ddd/dddd-dd *)
formatCNPJForAPI(cnpj) ==
    LET d == CleanCNPJ(cnpj)
    IN  <<d[1], d[2], ".", d[3], d[4], d[5], ".", d[6], d[7], d[8], "/",
          d[9], d[10], d[11], d[12], "-", d[13], d[14]>>

(* The registry client's state: requestQueue maps a formatted tax-id to the
   request (promise) in flight for it; requests lists the physical requests
   made, each with its key and promise state; calls lists the enrichCNPJ
   calls made, each with the request whose promise it awaits or returns
   (0 when validation threw) and what the caller has received *)
LookupCall(input, request, creator, outcome) ==
    [input |-> input, request |-> request, creator |-> creator, outcome |-> outcome]

(* enrichCNPJ from the call to its first await: validation, the look in the
   request queue, and for a tax-id not in it the new request and its entry *)
enrichCNPJ_Call(reg, cnpj) ==
    IF ~validateCNPJFormat(cnpj)
    THEN [reg EXCEPT !.calls = Append(@, LookupCall(cnpj, 0, FALSE, "INVALID_FORMAT"))]
    ELSE LET formattedCNPJ == formatCNPJForAPI(cnpj)
         IN  IF formattedCNPJ \in DOMAIN reg.requestQueue
             THEN [reg EXCEPT !.calls =
                      Append(@, LookupCall(cnpj, reg.requestQueue[formattedCNPJ], FALSE, "pending"))]
             ELSE LET r == Len(reg.requests) + 1
                  IN  [requestQueue |-> MapSet(reg.requestQueue, formattedCNPJ, r),
                       requests |-> Append(reg.requests,
                                           [key |-> formattedCNPJ, status |-> "pending"]),
                       calls |-> Append(reg.calls, LookupCall(cnpj, r, TRUE, "pending"))]

(* a variant whose creator removes the entry only after a success *)
enrichCNPJ_Settled_KeepFailed(reg, r, outcome) ==
    [requestQueue |-> IF outcome = "fulfilled"
                      THEN MapDelete(reg.requestQueue, reg.requests[r].key)
                      ELSE reg.requestQueue,
     requests |-> [reg.requests EXCEPT ![r].status = outcome],
     calls |-> [i \in DOMAIN reg.calls |->
                  IF reg.calls[i].request = r
                  THEN [reg.calls[i] EXCEPT !.outcome = outcome]
                  ELSE reg.calls[i]]]

(* request r settles: every call awaiting or returning its promise receives
   the outcome, and the creator's finally block deletes the entry of its
   formatted tax-id *)
enrichCNPJ_Settled(reg, r, outcome) ==
    [requestQueue |-> MapDelete(reg.requestQueue, reg.requests[r].key),
     requests |-> [reg.requests EXCEPT ![r].status = outcome],
     calls |-> [i \in DOMAIN reg.calls |->
                  IF reg.calls[i].request = r
                  THEN [reg.calls[i] EXCEPT !.outcome = outcome]
                  ELSE reg.calls[i]]]

---------------------------------------------------------------------------
(* Presence tracker (collaboration.service.ts) *)

(* array.splice(array.indexOf(x), 1) when x is in the array *)
RemoveFirst(seq, x) ==
    IF \E i \in DOMAIN seq : seq[i] = x
    THEN LET i == CHOOSE k \in DOMAIN seq : seq[k] = x /\ \A m \in 1..(k - 1) : seq[m] # x
         IN  SubSeq(seq, 1, i - 1) \o SubSeq(seq, i + 1, Len(seq))
    ELSE seq

NoSelection == "undefined"

InitialPosition == [row |-> 0, column |-> "nome"]

NoPresence ==
    [activeUsers |-> EmptyMap, userSessions |-> EmptyMap, sheetSessions |-> EmptyMap,
     sheetUsers |-> EmptyMap, userCursors |-> EmptyMap]

(* Array.from(activeUsers.values()), as the set of the users listed *)
getActiveUsers(p, sheetId) ==
    IF sheetId \notin DOMAIN p.activeUsers THEN {}
    ELSE DOMAIN p.activeUsers[sheetId]

getUserActiveSheets(p, userId) ==
    IF userId \notin DOMAIN p.userSessions THEN << >> ELSE p.userSessions[userId]

(* a variant that pushes the document onto the user's list on every join *)
userJoinSheet_AlwaysPush(p, sheetId, userId, userName) ==
    LET p1 == [p EXCEPT
                  !.activeUsers = IF sheetId \in DOMAIN @ THEN @ ELSE MapSet(@, sheetId, EmptyMap),
                  !.sheetSessions = IF sheetId \in DOMAIN @ THEN @ ELSE MapSet(@, sheetId, {}),
                  !.userSessions = IF userId \in DOMAIN @ THEN @ ELSE MapSet(@, userId, << >>)]
        cursor == [userId |-> userId, userName |-> userName,
                   position |-> InitialPosition, selection |-> NoSelection]
        p2 == [p1 EXCEPT
                  !.sheetSessions[sheetId] = @ \cup {userId},
                  !.userSessions[userId] = Append(@, sheetId),
                  !.activeUsers[sheetId] = MapSet(@, userId, cursor)]
    IN  [presence |-> p2, result |-> "user_joined", threw |-> FALSE,
         activeUsers |-> getActiveUsers(p2, sheetId)]

userJoinSheet(p, sheetId, userId, userName) ==
    LET p1 == [p EXCEPT
                  !.activeUsers = IF sheetId \in DOMAIN @ THEN @ ELSE MapSet(@, sheetId, EmptyMap),
                  !.sheetSessions = IF sheetId \in DOMAIN @ THEN @ ELSE MapSet(@, sheetId, {}),
                  !.userSessions = IF userId \in DOMAIN @ THEN @ ELSE MapSet(@, userId, << >>)]
        cursor == [userId |-> userId, userName |-> userName,
                   position |-> InitialPosition, selection |-> NoSelection]
        p2 == [p1 EXCEPT
                  !.sheetSessions[sheetId] = @ \cup {userId},
                  !.userSessions[userId] =
                      IF \E i \in DOMAIN @ : @[i] = sheetId THEN @ ELSE Append(@, sheetId),
                  !.activeUsers[sheetId] = MapSet(@, userId, cursor)]
    IN  [presence |-> p2, result |-> "user_joined", threw |-> FALSE,
         activeUsers |-> getActiveUsers(p2, sheetId)]

(* `this.sheetUsers.get(sheetId)!.delete(userId)` and the same on userCursors:
   Map.get of a key the map does not hold is undefined, and the call on it
   throws a TypeError that leaves the method *)
userLeaveSheet(p, sheetId, userId) ==
    IF \/ sheetId \notin DOMAIN p.sheetSessions
       \/ userId \notin DOMAIN p.userSessions
       \/ sheetId \notin DOMAIN p.activeUsers
    THEN [presence |-> p, result |-> "null", threw |-> FALSE, activeUsers |-> {}]
    ELSE LET p1 == [p EXCEPT
                       !.sheetSessions[sheetId] = @ \ {userId},
                       !.activeUsers[sheetId] = MapDelete(@, userId),
                       !.userSessions[userId] = RemoveFirst(@, sheetId)]
         IN  IF sheetId \notin DOMAIN p1.sheetUsers \/ sheetId \notin DOMAIN p1.userCursors
             THEN [presence |-> p1, result |-> "TypeError", threw |-> TRUE, activeUsers |-> {}]
             ELSE LET p2 == [p1 EXCEPT !.sheetUsers[sheetId] = @ \ {userId},
                                       !.userCursors[sheetId] = MapDelete(@, userId)]
                      p3 == IF p2.sheetSessions[sheetId] = {}
                            THEN [p2 EXCEPT !.sheetSessions = MapDelete(@, sheetId),
                                            !.activeUsers = MapDelete(@, sheetId),
                                            !.sheetUsers = MapDelete(@, sheetId),
                                            !.userCursors = MapDelete(@, sheetId)]
                            ELSE p2
                      p4 == IF p3.userSessions[userId] = << >>
                            THEN [p3 EXCEPT !.userSessions = MapDelete(@, userId)]
                            ELSE p3
                  IN  [presence |-> p4, result |-> "user_left", threw |-> FALSE,
                       activeUsers |-> getActiveUsers(p4, sheetId)]

(* getCollaborationStats: the two totals are the sizes of the index maps *)
getCollaborationStats(p) ==
    [totalActiveUsers |-> Cardinality(DOMAIN p.userSessions),
     totalActiveSheets |-> Cardinality(DOMAIN p.sheetSessions),
     sheetsWithMultipleUsers |->
         Cardinality({d \in DOMAIN p.sheetSessions : Cardinality(p.sheetSessions[d]) > 1})]

(* a variant that gives a cursor to a user who is not joined *)
updateUserCursor_Upsert(p, sheetId, userId, position, selection) ==
    LET joined == userJoinSheet(p, sheetId, userId, userId).presence
    IN  [presence |-> [joined EXCEPT !.activeUsers[sheetId][userId].position = position],
         result |-> "cursor_moved", threw |-> FALSE, activeUsers |-> {}]

updateUserCursor(p, sheetId, userId, position, selection) ==
    IF sheetId \notin DOMAIN p.activeUsers \/ userId \notin DOMAIN p.activeUsers[sheetId]
    THEN [presence |-> p, result |-> "null", threw |-> FALSE, activeUsers |-> {}]
    ELSE [presence |->
              [p EXCEPT !.activeUsers[sheetId][userId] =
                  [@ EXCEPT !.position = position,
                            !.selection = IF selection # NoSelection THEN selection ELSE @]],
          result |-> "cursor_moved", threw |-> FALSE, activeUsers |-> {}]

---------------------------------------------------------------------------
(* Inputs of the model *)

RowAna == << [k |-> "nome", v |-> "Ana"], [k |-> "cnpj", v |-> "11.222.333/0001-81"] >>
RowBob == << [k |-> "nome", v |-> "Bob"], [k |-> "cnpj", v |-> "11.444.777/0001-61"] >>
RowNoTaxId == << [k |-> "nome", v |-> "Eva"], [k |-> "cnpj", v |-> " "] >>

InitialDatasets ==
    { << >>, <<RowAna, RowBob>> }

NewRows == { <<RowBob[2]>> }

RowIndices == {0, 2}   \* a row of the initial documents, and one past their end
UserColumns == {"cnpj", "_enriched"}
UserValues == {" ", "33.000.167/0001-01"}

ColumnSpecs ==
    { [name |-> <<"F", "u", "l", "l", " ", "N", "a", "m", "e">>, type |-> "text", editable |-> TRUE],
      [name |-> <<"f", "u", "l", "l", " ", "\t", "n", "a", "m", "e">>, type |-> "text", editable |-> FALSE],
      [name |-> <<"C", "N", "P", "J">>, type |-> "cnpj", editable |-> TRUE] }

BatchSizeOptions == {1, 2}
ConcurrencyOptions == {1, 2}

NoReply == [op |-> "none", sheetId |-> "", threw |-> FALSE]

NoEvent ==
    [op |-> "none", sheetId |-> "", userId |-> "", joined |-> FALSE,
     result |-> "", threw |-> FALSE, activeUsers |-> {}]

NoProbe == [input |-> << >>, verdict |-> "none"]

PresenceDocs == {"d1", "d2"}
UserNames == [u \in Users |-> IF u = "u1" THEN "Ana" ELSE "Bob"]
CursorPositions == { [row |-> 1, column |-> "cnpj"] }
Selections == { NoSelection, "A1:B2" }

NoRegistry == [requestQueue |-> EmptyMap, requests |-> << >>, calls |-> << >>]

Timestamps == {1}   \* Date.now() when a command is handled

Clients == {"c1", "c2"}
NoSockets == [c \in Clients |-> [state |-> "new", joined |-> {}]]

NoOp ==
    [op |-> "none", row |-> 0, col |-> "", value |-> "", user |-> NoUser,
     vBefore |-> 0, results |-> << >>, pairStart |-> -1, wasLoading |-> FALSE]

---------------------------------------------------------------------------
(* The state machine *)

InitWith(datasets, commands) ==
    /\ \E data \in datasets : sheets = [d \in {Doc} |-> createSheet(data)]
    /\ operations = [d \in {Doc} |-> << >>]
    /\ sessions = << >>
    /\ nmut = 0
    /\ lastOp = NoOp
    /\ appliedRows = {}
    /\ budget = commands
    /\ reply = NoReply
    /\ options \in [batchSize : BatchSizeOptions, concurrency : ConcurrencyOptions]

(* no presence call made, no client connected *)
PresenceIdle == presence = NoPresence /\ event = NoEvent /\ sockets = NoSockets

ValidatorIdle == probe = NoProbe /\ registry = NoRegistry

(* an empty document and no enrichment command to come *)
StoreIdle ==
    /\ InitWith({ << >> }, 0)
    /\ options = [batchSize |-> 1, concurrency |-> 1]

Init == InitWith(InitialDatasets, MaxCommands) /\ PresenceIdle /\ ValidatorIdle

(* update-cell command *)
UpdateCell(rowIndex, columnId, value, userId) ==
    /\ budget > 0
    /\ sheets' = [sheets EXCEPT ![Doc] = updateCell(@, rowIndex, columnId, value, userId)]
    /\ operations' = [operations EXCEPT ![Doc] =
                         recordOperation(@, Operation("cell_update", sheets[Doc].version + 1))]
    /\ nmut' = nmut + 1
    /\ lastOp' = [NoOp EXCEPT !.op = "updateCell", !.row = rowIndex, !.col = columnId,
                              !.value = value, !.user = userId,
                              !.vBefore = sheets[Doc].version,
                              !.wasLoading =
                                  /\ rowIndex < Len(sheets[Doc].rows)
                                  /\ columnId \in DOMAIN sheets[Doc].rows[rowIndex + 1]
                                  /\ sheets[Doc].rows[rowIndex + 1][columnId].isLoading,
                              !.pairStart = IF /\ lastOp.op = "updateCell"
                                               /\ lastOp.row = rowIndex
                                               /\ lastOp.col = columnId
                                            THEN lastOp.vBefore ELSE -1]
    /\ appliedRows' = IF columnId = "_enriched" THEN appliedRows \ {rowIndex} ELSE appliedRows
    /\ budget' = budget - 1
    /\ UNCHANGED <<sessions, options, reply, presence, event, probe, sockets, registry>>

(* add-row command *)
AddRow(data, userId) ==
    /\ budget > 0
    /\ sheets' = [sheets EXCEPT ![Doc] = addRow(@, data, userId)]
    /\ operations' = [operations EXCEPT ![Doc] =
                         recordOperation(@, Operation("row_insert", sheets[Doc].version + 1))]
    /\ nmut' = nmut + 1
    /\ lastOp' = [NoOp EXCEPT !.op = "addRow", !.row = Len(sheets[Doc].rows),
                              !.user = userId, !.vBefore = sheets[Doc].version]
    /\ budget' = budget - 1
    /\ UNCHANGED <<sessions, appliedRows, options, reply, presence, event, probe, sockets, registry>>

(* add-column command *)
AddColumn(column) ==
    /\ budget > 0
    /\ sheets' = [sheets EXCEPT ![Doc] =
                     addColumn(@, column)]
    /\ operations' = [operations EXCEPT ![Doc] =
                         recordOperation(@, Operation("column_insert", sheets[Doc].version + 1))]
    /\ nmut' = nmut + 1
    /\ lastOp' = [NoOp EXCEPT !.op = "addColumn", !.col = ColumnId(column.name),
                              !.vBefore = sheets[Doc].version]
    /\ budget' = budget - 1
    /\ UNCHANGED <<sessions, appliedRows, options, reply, presence, event, probe, sockets, registry>>

(* enrichSheet called at time `now`, up to its first suspension *)
EnrichSheetAt(now) ==
    LET sheet == sheets[Doc]
        r == enrichSheet(sheet, options, now)
    IN  /\ budget > 0
        /\ sheets' = [sheets EXCEPT ![Doc] = r.sheet]
        /\ operations' = [operations EXCEPT ![Doc] =
                             recordColumnInserts(@, sheet.version,
                                                 Len(r.sheet.columns) - Len(sheet.columns))]
        /\ sessions' = sessions \o r.started
        /\ nmut' = IF r.threw THEN nmut
                   ELSE nmut + (Len(r.sheet.columns) - Len(sheet.columns)) + 1
        /\ lastOp' = IF r.threw THEN lastOp
                     ELSE [NoOp EXCEPT !.op = "enrichSheet", !.vBefore = sheet.version]
        /\ reply' = [op |-> "enrichSheet", sheetId |-> Doc, threw |-> r.threw]
        /\ budget' = budget - 1
        /\ UNCHANGED <<appliedRows, options, presence, probe, sockets, registry>>

(* enrich-document command, as a call of enrichSheet *)
EnrichSheet ==
    \E now \in Timestamps : EnrichSheetAt(now) /\ UNCHANGED event

(* the registry lookup of batch b's current item returns: the batch resumes,
   then the dispatcher if the batch settled *)
LookupReturns(s, b, outcome) ==
    /\ b \in InFlight(sessions[s])
    /\ LET r == resumeBatch(sessions[s], b, outcome)
           applied == r.partial # << >>
       IN  /\ sessions' = [sessions EXCEPT ![s] = resumeDispatcher(r.sess, b)]
           /\ sheets' = IF applied
                        THEN [sheets EXCEPT ![Doc] = applyEnrichmentResults(@, r.partial)]
                        ELSE sheets
           /\ operations' = IF applied
                            THEN [operations EXCEPT ![Doc] =
                                     recordOperation(@, Operation("enrichment_update",
                                                                  sheets[Doc].version + 1))]
                            ELSE operations
           /\ nmut' = IF applied THEN nmut + 1 ELSE nmut
           /\ lastOp' = IF applied
                        THEN [NoOp EXCEPT !.op = "applyEnrichmentResults",
                                          !.results = r.partial,
                                          !.vBefore = sheets[Doc].version]
                        ELSE lastOp
           /\ appliedRows' = IF applied
                             THEN appliedRows \cup {r.partial[k].rowIndex : k \in DOMAIN r.partial}
                             ELSE appliedRows
    /\ UNCHANGED <<budget, options, reply, presence, event, probe, sockets, registry>>

(* cancel-enrichment command *)
Cancel(s) ==
    /\ budget > 0
    /\ sessions' = [sessions EXCEPT ![s] = cancelEnrichment(@)]
    /\ budget' = budget - 1
    /\ UNCHANGED <<sheets, operations, nmut, lastOp, appliedRows, options, reply, presence, event, probe, sockets, registry>>

Passes ==
    \/ EnrichSheet
    \/ \E s \in DOMAIN sessions : \E b \in DOMAIN sessions[s].batch, o \in Outcomes :
          LookupReturns(s, b, o)

Next ==
    \/ \E r \in RowIndices, c \in UserColumns, v \in UserValues, u \in Users :
          UpdateCell(r, c, v, u)
    \/ \E data \in NewRows, u \in Users : AddRow(data, u)
    \/ \E column \in ColumnSpecs : AddColumn(column)
    \/ Passes
    \/ \E s \in DOMAIN sessions : Cancel(s)

Spec == Init /\ [][Next]_vars

(* The same, with users who also write the enrichment's own cells: an
   output column, and the marker column with the value `true` *)
PassColumns == {"trade_name", "_enriched"}
PassValues == {True}

NextEdit ==
    \/ Next
    \/ \E r \in RowIndices, c \in PassColumns, v \in PassValues, u \in Users :
          UpdateCell(r, c, v, u)

SpecEdit == Init /\ [][NextEdit]_vars

(* The operation log, on a document that already has a history: an empty
   document on which n update-cell commands have written the same cell *)
PriorOperations == {0, 999, 1000}
HistoryLimits == {0, 1, 100}

AfterUpdates(n) ==
    IF n = 0 THEN createSheet(<< >>)
    ELSE [updateCell(createSheet(<< >>), 0, "cnpj", " ", "u1")
          EXCEPT !.version = InitialVersion + n]

InitLog ==
    /\ \E n \in PriorOperations :
          /\ sheets = [d \in {Doc} |-> AfterUpdates(n)]
          /\ operations = [d \in {Doc} |->
                               [i \in 1..n |-> Operation("cell_update", InitialVersion + i)]]
          /\ nmut = n
          /\ lastOp = IF n = 0 THEN NoOp
                      ELSE [NoOp EXCEPT !.op = "updateCell", !.col = "cnpj", !.value = " ",
                                        !.user = "u1", !.vBefore = n,
                                        !.pairStart = IF n > 1 THEN n - 1 ELSE -1]
    /\ sessions = << >>
    /\ appliedRows = {}
    /\ budget = MaxCommands
    /\ reply = NoReply
    /\ options = [batchSize |-> 1, concurrency |-> 1]
    /\ PresenceIdle /\ ValidatorIdle

(* getOperationHistory(sheetId, limit) on the document *)
GetOperationHistory(limit) ==
    /\ reply' = [op |-> "getOperationHistory", sheetId |-> Doc, threw |-> FALSE,
                 limit |-> limit, history |-> getOperationHistory(operations[Doc], limit)]
    /\ UNCHANGED <<sheets, operations, sessions, nmut, lastOp, appliedRows, budget, options,
                   presence, event, probe, sockets, registry>>

NextLog ==
    \/ \E v \in UserValues, u \in Users : UpdateCell(0, "cnpj", v, u)
    \/ \E data \in NewRows, u \in Users : AddRow(data, u)
    \/ \E column \in ColumnSpecs : AddColumn(column)
    \/ \E limit \in HistoryLimits : GetOperationHistory(limit)

SpecLog == InitLog /\ [][NextLog]_vars

(* Document Store calls that name a document the store does not hold.  How
   each operation looks the document up: through getSheet (which throws
   NotFoundException), with its own `if (!sheet) throw`, or not at all *)
StoreOps ==
    {"getSheet", "updateCell", "addRow", "addColumn", "applyEnrichmentResults",
     "markCellsAsLoading", "getUnenrichedRows", "getEnrichmentStats",
     "getSheetData", "getOperationHistory"}

UnknownIds == {"d0"}

DocumentLookup(op) ==
    CASE op \in {"getSheet", "updateCell", "addRow", "addColumn", "getSheetData"} -> "getSheet"
      [] op \in {"applyEnrichmentResults", "markCellsAsLoading", "getUnenrichedRows",
                 "getEnrichmentStats"} -> "own"
      [] OTHER -> "none"   \* getOperationHistory: this.operations.get(sheetId) || []

StoreCallThrows(op, sheetId) ==
    DocumentLookup(op) # "none" /\ sheetId \notin DOMAIN sheets

StoreCall(op, sheetId) ==
    /\ budget > 0
    /\ sheetId \notin DOMAIN sheets
    /\ reply' = [op |-> op, sheetId |-> sheetId, threw |-> StoreCallThrows(op, sheetId)]
    /\ budget' = budget - 1
    /\ UNCHANGED <<sheets, operations, sessions, nmut, lastOp, appliedRows, options, presence, event, probe, sockets, registry>>

NextStore ==
    \/ Next
    \/ \E op \in StoreOps, sheetId \in UnknownIds : StoreCall(op, sheetId)

SpecStore == Init /\ [][NextStore]_vars

(* The presence tracker alone *)
Joined(sheetId, userId) ==
    sheetId \in DOMAIN presence.activeUsers /\ userId \in DOMAIN presence.activeUsers[sheetId]

EventOf(op, sheetId, userId, r) ==
    [op |-> op, sheetId |-> sheetId, userId |-> userId,
     joined |-> Joined(sheetId, userId),
     result |-> r.result, threw |-> r.threw, activeUsers |-> r.activeUsers]

JoinSheet(sheetId, userId) ==
    LET r == userJoinSheet(presence, sheetId, userId, UserNames[userId])
    IN  /\ presence' = r.presence
        /\ event' = EventOf("userJoinSheet", sheetId, userId, r)
        /\ UNCHANGED <<storeVars, probe, sockets, registry>>

LeaveSheet(sheetId, userId) ==
    LET r == userLeaveSheet(presence, sheetId, userId)
    IN  /\ presence' = r.presence
        /\ event' = EventOf("userLeaveSheet", sheetId, userId, r)
        /\ UNCHANGED <<storeVars, probe, sockets, registry>>

UpdateCursor(sheetId, userId, position, selection) ==
    LET r == updateUserCursor(presence, sheetId, userId, position, selection)
    IN  /\ presence' = r.presence
        /\ event' = EventOf("updateUserCursor", sheetId, userId, r)
        /\ UNCHANGED <<storeVars, probe, sockets, registry>>

NextPresence ==
    \/ \E d \in PresenceDocs, u \in Users : JoinSheet(d, u)
    \/ \E d \in PresenceDocs, u \in Users : LeaveSheet(d, u)
    \/ \E d \in PresenceDocs, u \in Users, pos \in CursorPositions, sel \in Selections :
          UpdateCursor(d, u, pos, sel)

InitPresence == StoreIdle /\ PresenceIdle /\ ValidatorIdle

SpecPresence == InitPresence /\ [][NextPresence]_vars

(* The gateway's presence handlers, with the client connections.  A
   connection goes new -> connected -> closing (the socket dropped, the
   disconnect handler not yet run) -> closed.  The user id of join-sheet and
   leave-sheet is a field of the message, not a property of the connection *)
GatewayDocs == {"d1"}

ClientConnects(c) ==
    /\ sockets[c].state = "new"
    /\ sockets' = [sockets EXCEPT ![c].state = "connected"]
    /\ UNCHANGED <<storeVars, presence, event, probe, registry>>

HandleJoinSheet(c, sheetId, userId) ==
    LET r == userJoinSheet(presence, sheetId, userId, UserNames[userId])
    IN  /\ sockets[c].state = "connected"
        /\ presence' = r.presence
        /\ event' = EventOf("userJoinSheet", sheetId, userId, r)
        /\ sockets' = [sockets EXCEPT ![c].joined = @ \cup {<<sheetId, userId>>}]
        /\ UNCHANGED <<storeVars, probe, registry>>

HandleLeaveSheet(c, sheetId, userId) ==
    LET r == userLeaveSheet(presence, sheetId, userId)
    IN  /\ sockets[c].state = "connected"
        /\ presence' = r.presence
        /\ event' = EventOf("userLeaveSheet", sheetId, userId, r)
        /\ sockets' = [k \in Clients |->
                          [sockets[k] EXCEPT !.joined = @ \ {<<sheetId, userId>>}]]
        /\ UNCHANGED <<storeVars, probe, registry>>

(* the client's socket drops without a leave-sheet *)
ClientDrops(c) ==
    /\ sockets[c].state = "connected"
    /\ sockets' = [sockets EXCEPT ![c].state = "closing"]
    /\ UNCHANGED <<storeVars, presence, event, probe, registry>>

(* handleDisconnect: logs the client id and nothing else *)
HandleDisconnect(c) ==
    /\ sockets[c].state = "closing"
    /\ sockets' = [sockets EXCEPT ![c].state = "closed"]
    /\ UNCHANGED <<storeVars, presence, event, probe, registry>>

NextGateway ==
    \/ \E c \in Clients : ClientConnects(c)
    \/ \E c \in Clients, d \in GatewayDocs, u \in Users : HandleJoinSheet(c, d, u)
    \/ \E c \in Clients, d \in GatewayDocs, u \in Users : HandleLeaveSheet(c, d, u)
    \/ \E c \in Clients : ClientDrops(c)
    \/ \E c \in Clients : HandleDisconnect(c)

(* the event loop runs the disconnect handler of every dropped socket; what
   the clients send is up to them *)
SpecGateway ==
    /\ InitPresence
    /\ [][NextGateway]_vars
    /\ \A c \in Clients : WF_vars(HandleDisconnect(c))

(* The gateway's enrich-sheet handler: it generates a session id from
   getSheetData(sheetId).rows, emits enrichment-started with it and then
   calls enrichSheet, which generates the id the session is stored under.
   The clock may tick between the two Date.now() *)
HandleEnrichSheet ==
    \E t1 \in Timestamps : \E t2 \in {t1, t1 + 1} :
        /\ event' = [op |-> "enrichment-started", sheetId |-> Doc,
                     sessionId |-> generateSessionId(
                                      stringifyCells(getSheetData(sheets[Doc]).rows),
                                      "company", t1)]
        /\ EnrichSheetAt(t2)

(* the session ids a client has seen: in enrichment-started, and in the
   enrichment-progress events of the passes *)
SeenSessionIds ==
    (IF event.op = "enrichment-started" THEN {event.sessionId} ELSE {})
    \cup {sessions[s].id : s \in {k \in DOMAIN sessions : sessions[k].emitted # << >>}}

(* handleCancelEnrichment: cancelEnrichment(payload.sessionId), which does
   nothing when this.sessions holds no session under that id *)
HandleCancelEnrichment(sessionId) ==
    /\ budget > 0
    /\ sessions' = [s \in DOMAIN sessions |->
                       IF sessions[s].id = sessionId THEN cancelEnrichment(sessions[s])
                       ELSE sessions[s]]
    /\ budget' = budget - 1
    /\ UNCHANGED <<sheets, operations, nmut, lastOp, appliedRows, options, reply, presence, event,
                   probe, sockets, registry>>

NextEnrichGateway ==
    \/ HandleEnrichSheet
    \/ \E s \in DOMAIN sessions : \E b \in DOMAIN sessions[s].batch, o \in Outcomes :
          LookupReturns(s, b, o)
    \/ \E sessionId \in SeenSessionIds : HandleCancelEnrichment(sessionId)

SpecEnrichGateway == Init /\ [][NextEnrichGateway]_vars

(* The tax-id validator alone.  The inputs: two valid tax-ids and every
   string that differs from one of them in one digit, each as 14 digits and
   in the display format dd.ddd.ddd/dddd-dd; their first 13 digits; a short
   formatted string; and the 14-fold repetitions of one digit *)
ValidTaxIds ==
    { <<"1","1","2","2","2","3","3","3","0","0","0","1","8","1">>,
      <<"1","1","4","4","4","7","7","7","0","0","0","1","6","1">> }

Display(d) ==
    <<d[1], d[2], ".", d[3], d[4], d[5], ".", d[6], d[7], d[8], "/",
      d[9], d[10], d[11], d[12], "-", d[13], d[14]>>

OneDigitChanged == { [b EXCEPT ![i] = c] : b \in ValidTaxIds, i \in 1..14, c \in Digits }

TaxIdInputs ==
    OneDigitChanged
    \cup { Display(d) : d \in OneDigitChanged }
    \cup { SubSeq(b, 1, 13) : b \in ValidTaxIds }
    \cup { <<"1","2","3",".","4","5","6",".","7","8","9">>,
            Display(<<"1","2","3","4","5","6","7","8","0","0","0","1","9","9">>) }
    \cup { [i \in 1..14 |-> c] : c \in Digits }

InitValidator ==
    /\ StoreIdle /\ PresenceIdle /\ registry = NoRegistry
    /\ probe \in { [input |-> x, verdict |-> "none"] : x \in TaxIdInputs }

ValidateTaxId ==
    /\ probe.verdict = "none"
    /\ probe' = [probe EXCEPT !.verdict = enrichCNPJ(probe.input)]
    /\ UNCHANGED <<storeVars, presence, event, sockets, registry>>

SpecValidator == InitValidator /\ [][ValidateTaxId]_vars

(* The registry client alone.  The tax-ids looked up: one valid tax-id as 14
   digits and in the display format, a second valid tax-id, and one with a
   wrong check digit *)
MaxLookups == 3

LookupInputs ==
    { <<"1","1","2","2","2","3","3","3","0","0","0","1","8","1">>,
      Display(<<"1","1","2","2","2","3","3","3","0","0","0","1","8","1">>),
      <<"1","1","4","4","4","7","7","7","0","0","0","1","6","1">>,
      <<"1","1","4","4","4","7","7","7","0","0","0","1","6","2">> }

(* performCNPJRequest returns the transformed response or throws *)
RequestOutcomes == {"fulfilled", "rejected"}

InitRegistry == StoreIdle /\ PresenceIdle /\ probe = NoProbe /\ registry = NoRegistry

(* a caller calls enrichCNPJ(cnpj) *)
EnrichCNPJ(cnpj) ==
    /\ Len(registry.calls) < MaxLookups
    /\ registry' = enrichCNPJ_Call(registry, cnpj)
    /\ UNCHANGED <<storeVars, presence, event, probe, sockets>>

(* the HTTP request r completes or fails *)
RequestSettles(r, outcome) ==
    /\ registry.requests[r].status = "pending"
    /\ registry' = enrichCNPJ_Settled(registry, r, outcome)
    /\ UNCHANGED <<storeVars, presence, event, probe, sockets>>

NextRegistry ==
    \/ \E cnpj \in LookupInputs : EnrichCNPJ(cnpj)
    \/ \E r \in DOMAIN registry.requests, outcome \in RequestOutcomes : RequestSettles(r, outcome)

SpecRegistry == InitRegistry /\ [][NextRegistry]_vars

(* the registry lookup of batch b's current item returns and the progress
   callback throws: the batch is rejected, then the dispatcher resumes if it
   is waiting for this batch *)
CallbackThrows(s, b) ==
    /\ b \in InFlight(sessions[s])
    /\ sessions' = [sessions EXCEPT ![s] = resumeDispatcher(progressCallbackThrows(@, b), b)]
    /\ UNCHANGED <<sheets, operations, nmut, lastOp, appliedRows, budget, options, reply,
                   presence, event, probe, sockets, registry>>

(* Enrichment passes alone, on a document with more rows *)
WideDatasets == { <<RowAna, RowBob, RowNoTaxId, RowBob, RowAna>> }

InitPipeline == InitWith(WideDatasets, MaxPipelineCommands) /\ PresenceIdle /\ ValidatorIdle

SpecPipeline == InitPipeline /\ [][Passes]_vars

---------------------------------------------------------------------------
(* Properties *)

TheSheet == sheets[Doc]

SessionIds == DOMAIN sessions

Quiescent(sess) == sess.pc = "done" /\ InFlight(sess) = {}

(* lookups of document row r started so far, over all sessions *)
RECURSIVE LookupsOfRow(_, _)
LookupsOfRow(r, n) ==
    IF n = 0 THEN 0
    ELSE (IF r \in DOMAIN sessions[n].sent THEN sessions[n].sent[r] ELSE 0)
         + LookupsOfRow(r, n - 1)

CellIs(rowIndex, columnId, cell) ==
    /\ rowIndex + 1 \in DOMAIN TheSheet.rows
    /\ columnId \in DOMAIN TheSheet.rows[rowIndex + 1]
    /\ TheSheet.rows[rowIndex + 1][columnId] = cell

(* C1: every accepted mutating call (updateCell, addRow, addColumn,
   applyEnrichmentResults, markCellsAsLoading) raises metadata.version by
   exactly 1: after N of them the version is 1 + N, and the version after a
   mutation is above the version before it *)
C1_VersionCountsMutations ==
    /\ TheSheet.version = InitialVersion + nmut
    /\ lastOp.op # "none" => TheSheet.version > lastOp.vBefore

C1_Witness ==
    /\ lastOp.op = "applyEnrichmentResults"
    /\ budget = 0
    /\ nmut >= 5

(* C2: a session cancelled while its pipeline was pending has status
   cancelled once the pipeline has returned *)
C2_CancelledStaysCancelled ==
    \A s \in SessionIds :
        (sessions[s].cancelPending /\ sessions[s].pc = "done")
            => sessions[s].status = "cancelled"

(* C3: at most options.concurrency batches of a pass are in flight *)
C3_BoundedConcurrency ==
    \A s \in SessionIds : Cardinality(InFlight(sessions[s])) <= sessions[s].concurrency

(* C4: each document row is sent to the registry lookup at most once, over
   all enrichSheet invocations *)
C4_AtMostOnceLookup ==
    \A r \in 0..(Len(TheSheet.rows) - 1) : LookupsOfRow(r, Len(sessions)) <= 1

(* C5: when every session has completed without cancellation and all its
   batches have settled, no cell of the document is loading *)
C5_NoLoadingWhenCompleted ==
    (/\ sessions # << >>
     /\ \A s \in SessionIds : /\ Quiescent(sessions[s])
                              /\ sessions[s].status = "completed"
                              /\ ~sessions[s].cancelReq)
        => ~AnyLoading(TheSheet)

(* C6: last write wins.  After updateCell the cell holds exactly the value
   and author of that call; after applyEnrichmentResults every cell it wrote
   holds the applied value; two back-to-back updateCell calls on one cell
   advance the version by exactly 2 *)
C6_LastWriteWins ==
    /\ lastOp.op = "updateCell" =>
          /\ CellIs(lastOp.row, lastOp.col, Cell(lastOp.value, FALSE, lastOp.user))
          /\ TheSheet.version = lastOp.vBefore + 1
          /\ lastOp.pairStart >= 0 => TheSheet.version = lastOp.pairStart + 2
    /\ lastOp.op = "applyEnrichmentResults" =>
          \A k \in DOMAIN lastOp.results :
              \A f \in DOMAIN lastOp.results[k].enrichedFields :
                  LET field == lastOp.results[k].enrichedFields[f]
                  IN  field.v # Null =>
                          CellIs(lastOp.results[k].rowIndex, field.k,
                                 Cell(field.v, FALSE, NoUser))

C6_Witness ==
    /\ lastOp.op = "updateCell"
    /\ lastOp.pairStart >= 0
    /\ lastOp.user = "u2"
    /\ lastOp.col = "cnpj"
    /\ TheSheet.version = InitialVersion + 2

(* C7: column ids are unique within the document *)
C7_UniqueColumnIds ==
    \A i, j \in DOMAIN TheSheet.columns :
        i # j => TheSheet.columns[i].id # TheSheet.columns[j].id

(* C8: a row of an applied result is not returned by getUnenrichedRows (as
   long as no updateCell has written its marker since), so an enrichment
   pass selects none of them: it selects only rows with a non-blank tax-id
   outside every earlier applied result *)
C8_AppliedRowsNotSelected ==
    /\ \A r \in appliedRows : r \notin Range(getUnenrichedRows(TheSheet, "cnpj"))
    /\ lastOp.op = "applyEnrichmentResults" =>
          \A k \in DOMAIN lastOp.results :
              /\ lastOp.results[k].rowIndex \in appliedRows
              /\ CellIs(lastOp.results[k].rowIndex, "_enriched", Cell(True, FALSE, NoUser))
    /\ lastOp.op = "enrichSheet" =>
          LET selected == Range(sessions[Len(sessions)].indices)
          IN  /\ selected \cap appliedRows = {}
              /\ \A r \in selected :
                    /\ "cnpj" \in DOMAIN TheSheet.rows[r + 1]
                    /\ TheSheet.rows[r + 1]["cnpj"].value \notin {"", " ", Null}

C8_Witness ==
    /\ lastOp.op = "enrichSheet"
    /\ Len(sessions) = 2
    /\ appliedRows # {}
    /\ \E r \in appliedRows : sessions[2].failed = {} /\ r \in sessions[1].failed

(* C9 as stated: emitted percentages never decrease, processed never
   exceeds the total, and a session's percentage is 100 only when its status
   is completed *)
C9_HundredOnlyWhenCompleted ==
    \A s \in SessionIds :
        LET sess == sessions[s]
        IN  /\ \A k \in 1..(Len(sess.emitted) - 1) :
                  sess.emitted[k].percentage <= sess.emitted[k + 1].percentage
            /\ sess.processed <= sess.total
            /\ sess.percentage = 100 => sess.status = "completed"
            /\ \A k \in DOMAIN sess.emitted :
                  sess.emitted[k].percentage = 100 => sess.emitted[k].status = "completed"

(* C9 amended: the k-th progress event carries processed = k and the
   percentage 100 * k / T rounded to the nearest integer (half up); the
   emitted percentages never decrease, processed never exceeds T, and 100
   is emitted only when at least 99.5% of the rows are processed *)
C9_ProgressMonotone ==
    \A s \in SessionIds :
        LET sess == sessions[s]
            T == sess.total
        IN  /\ \A k \in 1..(Len(sess.emitted) - 1) :
                  sess.emitted[k].percentage <= sess.emitted[k + 1].percentage
            /\ sess.processed <= T
            /\ Len(sess.emitted) = sess.processed
            /\ \A k \in DOMAIN sess.emitted :
                  LET e == sess.emitted[k]
                  IN  /\ e.processed = k
                      /\ 2 * T * e.percentage <= 200 * k + T
                      /\ 200 * k + T < 2 * T * (e.percentage + 1)
                      /\ e.percentage = 100 => 200 * k >= 199 * T

C9_Witness ==
    \E s \in SessionIds :
        LET sess == sessions[s]
        IN  /\ sess.total = 3
            /\ Len(sess.emitted) = 3
            /\ sess.emitted[3].percentage = 100
            /\ sess.emitted[3].status = "processing"
            /\ sess.emitted[2].percentage = 67

(* C10: a failed lookup aborts neither its batch nor the session.  Without
   cancellation, once the pipeline has returned and every batch has settled
   the session is completed with processed = total and exactly one result
   per selected row, the rows whose lookup failed carrying an error payload *)
C10_FailuresDoNotAbort ==
    \A s \in SessionIds :
        LET sess == sessions[s]
        IN  /\ sess.status # "error"
            /\ (Quiescent(sess) /\ ~sess.cancelReq) =>
                  /\ sess.status = "completed"
                  /\ sess.processed = sess.total
                  /\ Len(sess.results) = Len(sess.indices)
                  /\ \A r \in Range(sess.indices) :
                        \E k \in DOMAIN sess.results :
                            /\ sess.results[k].rowIndex = r
                            /\ (r \in sess.failed) =
                                   (Lookup(sess.results[k].enrichedFields, "error") = True)

C10_Witness ==
    \E s \in SessionIds :
        LET sess == sessions[s]
        IN  /\ Quiescent(sess) /\ ~sess.cancelReq
            /\ sess.status = "completed"
            /\ Len(sess.batches) >= 2
            /\ sess.total >= 2
            /\ sess.failed # {}
            /\ sess.failed # Range(sess.indices)

(* C11: enrichSheet on a document with no eligible row fails at once: the
   call throws, no session is created, and the document (version, columns,
   cells) is left as it was *)
C11_NothingToEnrichRejected ==
    [][(EnrichSheet /\ getUnenrichedRows(sheets[Doc], "cnpj") = << >>)
          => (reply'.threw /\ sessions' = sessions /\ sheets' = sheets /\ nmut' = nmut)]_vars

C11_Witness ==
    /\ reply.op = "enrichSheet" /\ reply.threw
    /\ Len(sessions) = 1
    /\ Len(TheSheet.rows) = 2
    /\ appliedRows = {0, 1}
    /\ TheSheet.version = InitialVersion + nmut

(* C12: cancelEnrichment on a session that has already ended (completed or
   error) changes nothing: a session whose startEnrichment call returned
   without a cancellation before that keeps the status it ended with *)
C12_CancelOnFinishedIsNoOp ==
    \A s \in SessionIds :
        (sessions[s].pc = "done" /\ ~sessions[s].cancelPending)
            => sessions[s].status \in {"completed", "error"}

(* C13: every Document Store operation called with a document id the store
   does not hold fails with a not-found error *)
C13_UnknownDocumentNotFound ==
    (reply.op \in StoreOps /\ reply.sheetId \notin DOMAIN sheets) => reply.threw

(* C14: userLeaveSheet for a user who is not joined to the document returns
   null and raises no exception *)
C14_LeaveNotJoinedIsNull ==
    (event.op = "userLeaveSheet" /\ ~event.joined)
        => (event.result = "null" /\ ~event.threw)

(* C15: userLeaveSheet for a user joined to the document raises no
   exception and returns a user_left event whose active-user list does not
   hold the user *)
C15_LeaveJoinedReturnsUserLeft ==
    (event.op = "userLeaveSheet" /\ event.joined)
        => (~event.threw /\ event.result = "user_left"
            /\ event.userId \notin event.activeUsers)

NoCursor ==
    [userId |-> "", userName |-> "", position |-> [row |-> -1, column |-> ""],
     selection |-> NoSelection]

CursorOf(p, sheetId, userId) ==
    IF sheetId \in DOMAIN p.activeUsers /\ userId \in DOMAIN p.activeUsers[sheetId]
    THEN p.activeUsers[sheetId][userId]
    ELSE NoCursor

(* C16: updateUserCursor for a user who is not joined to the document
   returns null and changes no presence state; for a joined user it returns
   a cursor_moved event, sets the position of that user's cursor on that
   document, and changes no other cursor and no membership *)
C16_CursorUpdateFrame ==
    [][\A d \in PresenceDocs, u \in Users, pos \in CursorPositions, sel \in Selections :
          UpdateCursor(d, u, pos, sel) =>
              /\ ~event'.threw
              /\ ~Joined(d, u) => (event'.result = "null" /\ presence' = presence)
              /\ Joined(d, u) =>
                    /\ event'.result = "cursor_moved"
                    /\ CursorOf(presence', d, u).position = pos
                    /\ CursorOf(presence', d, u).userName = CursorOf(presence, d, u).userName
              /\ \A d2 \in PresenceDocs, u2 \in Users :
                    <<d2, u2>> # <<d, u>> => CursorOf(presence', d2, u2) = CursorOf(presence, d2, u2)
              /\ presence'.sheetSessions = presence.sheetSessions
              /\ presence'.userSessions = presence.userSessions
              /\ \A d2 \in PresenceDocs : getActiveUsers(presence', d2) = getActiveUsers(presence, d2)
      ]_vars

C16_Witness ==
    /\ event.op = "updateUserCursor" /\ event.result = "cursor_moved"
    /\ event.sheetId = "d1" /\ event.userId = "u1"
    /\ CursorOf(presence, "d1", "u1").position # InitialPosition
    /\ CursorOf(presence, "d1", "u2").position = InitialPosition
    /\ CursorOf(presence, "d2", "u1").position = InitialPosition

(* the check digit of a list of digits: weights 2, 3, ..., 9, 2, 3, ... from
   the right, the sum taken modulo 11, remainders 0 and 1 giving 0 *)
RECURSIVE SumFromRight(_, _)
SumFromRight(ds, k) ==
    IF k > Len(ds) THEN 0
    ELSE ds[Len(ds) + 1 - k] * (2 + ((k - 1) % 8)) + SumFromRight(ds, k + 1)

CheckDigit(ds) ==
    LET r == SumFromRight(ds, 1) % 11 IN IF r < 2 THEN 0 ELSE 11 - r

DigitsOf(input) ==
    LET cs == SelectSeq(input, LAMBDA c : c \in Digits)
    IN  [i \in DOMAIN cs |-> CHOOSE n \in 0..9 : ToString(n) = cs[i]]

WellFormedTaxId(ds) ==
    /\ Len(ds) = 14
    /\ \E i \in 1..14 : ds[i] # ds[1]
    /\ ds[13] = CheckDigit(SubSeq(ds, 1, 12))
    /\ ds[14] = CheckDigit(SubSeq(ds, 1, 13))

(* C17: the validator's verdict depends only on the digits of the input (an
   input and its digits-only form get the same verdict), and it accepts
   exactly the inputs with 14 digits, not all the same, whose two check
   digits match the weighted modulo-11 computation; every other input is
   rejected with INVALID_FORMAT and no request is made *)
C17_ValidatorAcceptsExactlyWellFormed ==
    /\ validateCNPJFormat(probe.input)
           = validateCNPJFormat(SelectSeq(probe.input, LAMBDA c : c \in Digits))
    /\ probe.verdict # "none" =>
          /\ (probe.verdict = "requested") = WellFormedTaxId(DigitsOf(probe.input))
          /\ (probe.verdict = "INVALID_FORMAT") = ~WellFormedTaxId(DigitsOf(probe.input))

C17_Witness ==
    /\ probe.verdict = "requested"
    /\ probe.input = Display(<<"1","1","2","2","2","3","3","3","0","0","0","1","8","1">>)

(* C18: when cancelEnrichment arrives after k batches were dispatched and
   before the next one starts, no item of a later batch is ever sent to the
   registry lookup and processed never exceeds the number of items of
   batches 1..k *)
C18_NoLookupAfterCancel ==
    \A s \in SessionIds :
        LET sess == sessions[s]
            k == sess.cancelAt
        IN  k >= 0 =>
              /\ \A b \in DOMAIN sess.batches :
                    b > k =>
                       /\ sess.batch[b].state \in {"idle", "fulfilled"}
                       /\ sess.batch[b].results = << >>
                       /\ \A j \in DOMAIN sess.batches[b] :
                             sess.sent[sess.indices[sess.batches[b][j] + 1]] = 0
              /\ sess.processed <= Min(k * sess.batchSize, sess.total)

C18_Witness ==
    \E s \in SessionIds :
        LET sess == sessions[s]
        IN  /\ sess.cancelAt = 1
            /\ Len(sess.batches) = 2
            /\ sess.pc = "done"
            /\ sess.batch[2].state = "fulfilled"
            /\ sess.processed = 1

(* C19: whenever a session that was never cancelled has status completed,
   none of its batches is in flight, its results hold one result per
   selected row, and every selected row carries the _enriched marker *)
C19_CompletedAfterAllSettled ==
    \A s \in SessionIds :
        LET sess == sessions[s]
        IN  (sess.status = "completed" /\ ~sess.cancelReq) =>
               /\ InFlight(sess) = {}
               /\ Len(sess.results) = Len(sess.indices)
               /\ \A r \in Range(sess.indices) :
                     CellIs(r, "_enriched", Cell(True, FALSE, NoUser))

SelectedRows == UNION { Range(sessions[s].indices) : s \in SessionIds }

(* C20: every enrichment result names the document row its tax-id was read
   from (the row's index in the document, not its position among the
   selected rows), results are applied to those rows only, and a row that no
   pass selected holds no cell written by a pass *)
C20_ResultsGoToTheirRows ==
    /\ \A s \in SessionIds :
          LET sess == sessions[s]
          IN  \A b \in DOMAIN sess.batch : \A k \in DOMAIN sess.batch[b].results :
                  LET res == sess.batch[b].results[k]
                  IN  /\ res.rowIndex \in DOMAIN sess.source
                      /\ res.data = sess.source[res.rowIndex]
                      /\ res.rowIndex < Len(TheSheet.rows)
    /\ \A s \in SessionIds : \A k \in DOMAIN sessions[s].results :
          \E b \in DOMAIN sessions[s].batch : \E j \in DOMAIN sessions[s].batch[b].results :
              sessions[s].batch[b].results[j] = sessions[s].results[k]
    /\ lastOp.op = "applyEnrichmentResults" =>
          \A k \in DOMAIN lastOp.results : lastOp.results[k].rowIndex \in SelectedRows
    /\ \A r \in 0..(Len(TheSheet.rows) - 1) :
          r \notin SelectedRows =>
              \A c \in DOMAIN TheSheet.rows[r + 1] :
                  /\ TheSheet.rows[r + 1][c].modifiedBy # NoUser
                  /\ ~TheSheet.rows[r + 1][c].isLoading

C20_Witness ==
    \E s \in SessionIds :
        /\ sessions[s].indices = <<1>>
        /\ Len(sessions[s].results) = 1
        /\ sessions[s].results[1].rowIndex = 1
        /\ lastOp.op = "applyEnrichmentResults"
        /\ 0 \notin SelectedRows

(* how many columns of the document carry the id *)
Occurrences(sheet, id) ==
    Cardinality({i \in DOMAIN sheet.columns : sheet.columns[i].id = id})

OutputColumnIds ==
    {getEnrichmentColumns("company")[i].id : i \in DOMAIN getEnrichmentColumns("company")}

(* C21: the pre-creation of the output columns is idempotent.  Once a pass
   of kind "company" has started on the document, and however many more
   follow it, every output column id of that kind occurs exactly once in
   the document's columns. *)
C21_OutputColumnsOnce ==
    sessions # << >> =>
        \A id \in OutputColumnIds : Occurrences(TheSheet, id) = 1

(* two passes have started on the same document *)
C21_Witness ==
    /\ Len(sessions) = 2
    /\ \A id \in OutputColumnIds : Occurrences(TheSheet, id) = 1

(* C22: only applyEnrichmentResults clears a loading cell.  A user's
   update-cell on a cell that a pass marked as loading leaves the cell
   loading. *)
C22_UserEditKeepsLoading ==
    (lastOp.op = "updateCell" /\ lastOp.wasLoading) =>
        TheSheet.rows[lastOp.row + 1][lastOp.col].isLoading

(* C23: no user command sets the enrichment marker.  A row carries
   `_enriched = true` only if applyEnrichmentResults marked it and no
   update-cell has written its marker since. *)
C23_OnlyPassesMarkRows ==
    \A i \in DOMAIN TheSheet.rows :
        isEnriched(TheSheet.rows[i]) => (i - 1) \in appliedRows

(* C24: cancellation is looked at only where batches are dispatched.  A
   batch that has started (the lookup of its first item was sent) and has
   settled has processed every one of its items and delivered one result
   per item, whether or not a cancellation arrived meanwhile. *)
C24_StartedBatchRunsToItsEnd ==
    \A s \in SessionIds : \A b \in DOMAIN sessions[s].batch :
        LET sess == sessions[s]
        IN  (sess.batch[b].state = "fulfilled" /\ sess.sent[OriginalIndex(sess, b, 0)] > 0)
                => Len(sess.batch[b].results) = Len(sess.batches[b])

(* Enrichment passes whose progress callback may throw *)
NextFaulty ==
    \/ Passes
    \/ \E s \in DOMAIN sessions : \E b \in DOMAIN sessions[s].batch : CallbackThrows(s, b)

SpecFaulty == InitPipeline /\ [][NextFaulty]_vars

(* C25: a failure of the orchestration machinery ends the session in
   error.  Once startEnrichment has returned and every batch has settled,
   a session one of whose batches was rejected by a throwing callback has
   status error, whatever the concurrency and whichever batch it was. *)
C25_CallbackFailureEndsInError ==
    \A s \in SessionIds :
        (Quiescent(sessions[s]) /\ \E b \in DOMAIN sessions[s].batch :
                                      sessions[s].batch[b].state = "rejected")
            => sessions[s].status = "error"

(* a session with its status and the history of its cancellations masked *)
BesidesStatus(sess) ==
    [sess EXCEPT !.status = "", !.cancelReq = FALSE, !.cancelPending = FALSE, !.cancelAt = -1]

(* C26: cancelEnrichment is forward-only.  A cancel-enrichment step leaves
   the document, the session's recorded results and progress, its batches
   and every other session as they were: of the session it changes the
   status and nothing else. *)
C26_CancelChangesOnlyStatus ==
    [][\A s \in DOMAIN sessions :
          Cancel(s) =>
              /\ sheets' = sheets
              /\ DOMAIN sessions' = DOMAIN sessions
              /\ sessions'[s].status = "cancelled"
              /\ BesidesStatus(sessions'[s]) = BesidesStatus(sessions[s])
              /\ \A t \in DOMAIN sessions \ {s} : sessions'[t] = sessions[t]]_vars

(* a session cancelled after one of its batches was recorded and applied *)
C26_Witness ==
    \E s \in SessionIds :
        /\ sessions[s].cancelReq
        /\ sessions[s].status = "cancelled"
        /\ sessions[s].results # << >>
        /\ appliedRows # {}

(* C27: loading is transient under cancellation too.  Once a cancelled
   session's call has returned and its batches have settled (and no other
   session is running), no row the pass selected but never dispatched
   still has a loading cell. *)
C27_NoLoadingLeftByCancelledPass ==
    \A s \in SessionIds :
        (sessions[s].cancelPending /\ \A t \in SessionIds : Quiescent(sessions[t]))
            => \A r \in Range(sessions[s].indices) :
                   sessions[s].sent[r] = 0
                       => \A c \in DOMAIN TheSheet.rows[r + 1] :
                              ~TheSheet.rows[r + 1][c].isLoading

(* C28: once every user who joined a document has left it, the empty index
   structures are removed.  No document is indexed with an empty set of
   users and no user with an empty list of documents, so the statistics
   count exactly the documents that have a user listed and the users
   listed in some document. *)
C28_NoEmptyIndexEntries ==
    /\ \A d \in DOMAIN presence.sheetSessions : presence.sheetSessions[d] # {}
    /\ \A u \in DOMAIN presence.userSessions : presence.userSessions[u] # << >>
    /\ getCollaborationStats(presence).totalActiveSheets =
           Cardinality({d \in PresenceDocs : getActiveUsers(presence, d) # {}})
    /\ getCollaborationStats(presence).totalActiveUsers =
           Cardinality({u \in Users : \E d \in PresenceDocs : u \in getActiveUsers(presence, d)})

(* the user is joined to the document through a live connection *)
JoinedThroughLiveSocket(sheetId, userId) ==
    \E k \in Clients : sockets[k].state = "connected" /\ <<sheetId, userId>> \in sockets[k].joined

(* C29: a user's cursor does not outlive the connection.  When a client
   that joined a document has dropped without a leave-sheet, then
   eventually the user is no longer listed in the document's active users
   (or has joined again through a live connection). *)
C29_DroppedUserEventuallyUnlisted ==
    \A c \in Clients, d \in GatewayDocs, u \in Users :
        (/\ sockets[c].state \in {"closing", "closed"}
         /\ <<d, u>> \in sockets[c].joined
         /\ ~JoinedThroughLiveSocket(d, u))
            ~> (u \notin getActiveUsers(presence, d) \/ JoinedThroughLiveSocket(d, u))

(* C30: the session id of enrichment-started is the id the pass runs
   under.  When an enrich-sheet command has started a pass, some session
   is stored under the id carried by its enrichment-started event. *)
C30_StartedIdNamesTheSession ==
    (event.op = "enrichment-started" /\ ~reply.threw)
        => \E s \in SessionIds : sessions[s].id = event.sessionId

TheLog == operations[Doc]

(* C31: the operation log is bounded and keeps the newest operations.
   Every mutation records one operation with the version it produced, so
   the log holds min(version - 1, 1000) entries, and they are the last
   ones recorded, oldest first: consecutive versions ending at the
   document's current version. *)
C31_LogKeepsNewestThousand ==
    /\ Len(TheLog) <= MaxOperations
    /\ Len(TheLog) = Min(TheSheet.version - InitialVersion, MaxOperations)
    /\ \A i \in DOMAIN TheLog : TheLog[i].version = TheSheet.version - Len(TheLog) + i

(* more than 1000 operations were recorded: the oldest were dropped *)
C31_Witness ==
    /\ TheSheet.version - InitialVersion > MaxOperations
    /\ Len(TheLog) = MaxOperations
    /\ TheLog[1].version > InitialVersion + 1

(* C32: getOperationHistory(id, limit) returns at most limit operations,
   the newest ones, newest first, for every limit >= 0. *)
C32_HistoryBoundedByLimit ==
    reply.op = "getOperationHistory" =>
        /\ Len(reply.history) = Min(reply.limit, Len(TheLog))
        /\ \A i \in DOMAIN reply.history :
               reply.history[i] = TheLog[Len(TheLog) + 1 - i]

(* C33: update-cell past the end grows the document to exactly rowIndex + 1
   rows: the rows it had are unchanged and the rows added before the
   target are empty.  No step reduces the number of rows. *)
C33_UpdateCellGrowsSparsely ==
    [][LET rows == sheets[Doc].rows
           rowsAfter == sheets'[Doc].rows
           rowIndex == lastOp'.row
       IN  /\ Len(rowsAfter) >= Len(rows)
           /\ (nmut' = nmut + 1 /\ lastOp'.op = "updateCell" /\ rowIndex >= Len(rows))
                  => /\ Len(rowsAfter) = rowIndex + 1
                     /\ \A i \in 1..Len(rows) : rowsAfter[i] = rows[i]
                     /\ \A i \in (Len(rows) + 1)..rowIndex : rowsAfter[i] = EmptyRow
                     /\ DOMAIN rowsAfter[rowIndex + 1] = {lastOp'.col}]_vars

(* an update-cell of row 2 of an empty document: rows 0 and 1 were added
   empty before it *)
C33_Witness ==
    /\ lastOp.op = "updateCell" /\ lastOp.row = 2 /\ lastOp.vBefore = InitialVersion
    /\ Len(TheSheet.rows) = 3
    /\ TheSheet.rows[1] = EmptyRow /\ TheSheet.rows[2] = EmptyRow

(* the field names the statistics are asked for: the tax-id column, the
   marker column, an output column and a column no row has *)
StatsFields == {"cnpj", "_enriched", "trade_name", "missing"}

(* C34: for every document state and field name the statistics add up:
   withCnpj = enriched + unenriched, total is the number of rows, and
   unenriched is the number of rows getUnenrichedRows returns for the field. *)
C34_StatsAgreeWithSelection ==
    \A f \in StatsFields :
        LET stats == getEnrichmentStats(TheSheet, f)
        IN  /\ stats.withCnpj = stats.enriched + stats.unenriched
            /\ stats.total = Len(TheSheet.rows)
            /\ stats.unenriched = Len(getUnenrichedRows(TheSheet, f))

(* a document with an enriched row, an unenriched row and a row without
   tax-id *)
C34_Witness ==
    LET stats == getEnrichmentStats(TheSheet, "cnpj")
    IN  stats.enriched >= 1 /\ stats.unenriched >= 1 /\ stats.total > stats.withCnpj

(* C35: at most one request per formatted tax-id is in flight; the request
   queue holds exactly the requests in flight, each under its own key; and
   every call that passed validation holds a request for its formatted
   tax-id and has received what that request settled to. *)
C35_OneRequestInFlightPerTaxId ==
    LET reg == registry
        InFlightRequests == {r \in DOMAIN reg.requests : reg.requests[r].status = "pending"}
    IN  /\ \A r1, r2 \in InFlightRequests :
              reg.requests[r1].key = reg.requests[r2].key => r1 = r2
        /\ \A k \in DOMAIN reg.requestQueue :
              /\ reg.requestQueue[k] \in InFlightRequests
              /\ reg.requests[reg.requestQueue[k]].key = k
        /\ \A r \in InFlightRequests : reg.requests[r].key \in DOMAIN reg.requestQueue
        /\ \A i \in DOMAIN reg.calls :
              LET call == reg.calls[i]
              IN  IF call.request = 0
                  THEN call.outcome = "INVALID_FORMAT" /\ ~validateCNPJFormat(call.input)
                  ELSE /\ reg.requests[call.request].key = formatCNPJForAPI(call.input)
                       /\ call.outcome = reg.requests[call.request].status

(* two lookups of one tax-id, written differently, shared one request; it
   failed, both callers have the failure and the queue is empty *)
C35_Witness ==
    /\ registry.requestQueue = EmptyMap
    /\ \E i, j \in DOMAIN registry.calls :
          /\ i < j
          /\ registry.calls[i].input # registry.calls[j].input
          /\ registry.calls[i].request = registry.calls[j].request
          /\ registry.calls[i].creator /\ ~registry.calls[j].creator
          /\ registry.calls[i].outcome = "rejected"
          /\ registry.calls[j].outcome = "rejected"

(* the rows that hold the error payload of an applied result, the marker
   not rewritten by an update-cell since *)
FailedAndApplied == {r \in appliedRows : "error" \in DOMAIN TheSheet.rows[r + 1]}

(* C36: a row whose lookup failed carries the error payload and the marker
   _enriched = true once its result is applied; getUnenrichedRows does not
   return it and a pass started afterwards does not select it. *)
C36_FailedRowsNotRetried ==
    /\ lastOp.op = "applyEnrichmentResults" =>
          \A k \in DOMAIN lastOp.results :
              HasKey(lastOp.results[k].enrichedFields, "error")
                 => lastOp.results[k].rowIndex \in FailedAndApplied
    /\ \A r \in FailedAndApplied :
          /\ CellIs(r, "_enriched", Cell(True, FALSE, NoUser))
          /\ r \notin Range(getUnenrichedRows(TheSheet, "cnpj"))
    /\ lastOp.op = "enrichSheet" =>
          Range(sessions[Len(sessions)].indices) \cap FailedAndApplied = {}

(* a second pass has started on a document with a failed, applied row and
   a row still to enrich: it selected the latter only *)
C36_Witness ==
    /\ lastOp.op = "enrichSheet"
    /\ Len(sessions) = 2
    /\ FailedAndApplied # {}
    /\ sessions[2].indices # << >>

(* row r (0-based) is outside the rows every pass so far has selected *)
Unselected(r) == \A s \in DOMAIN sessions : r \notin Range(sessions[s].indices)

(* C37: a row appended by add-row is outside the selection of every pass
   in flight; a row outside every selection has no loading cell, no marker
   and no result field, and with a non-blank tax-id it is returned by
   getUnenrichedRows; a pass selects every such row when it starts. *)
C37_AppendedRowLeftToNextPass ==
    /\ lastOp.op = "addRow" => Unselected(lastOp.row)
    /\ \A i \in DOMAIN TheSheet.rows :
          Unselected(i - 1) =>
             LET row == TheSheet.rows[i]
             IN  /\ \A c \in DOMAIN row : ~row[c].isLoading
                 /\ DOMAIN row \subseteq {"nome", "cnpj", "_enriched"}
                 /\ ~isEnriched(row)
                 /\ hasCnpj(row, "cnpj") => (i - 1) \in Range(getUnenrichedRows(TheSheet, "cnpj"))
    /\ lastOp.op = "enrichSheet" =>
          \A i \in DOMAIN TheSheet.rows :
              hasCnpj(TheSheet.rows[i], "cnpj") /\ ~isEnriched(TheSheet.rows[i])
                 => (i - 1) \in Range(sessions[Len(sessions)].indices)

(* a pass over two rows has completed; the row appended while it ran is as
   add-row wrote it and is returned by getUnenrichedRows *)
C37_Witness ==
    /\ lastOp.op = "applyEnrichmentResults"
    /\ Len(sessions) = 1 /\ sessions[1].status = "completed"
    /\ Len(sessions[1].indices) = 2
    /\ Len(TheSheet.rows) = 3
    /\ \E u \in Users : TheSheet.rows[3] = RowFromEntries(<<RowBob[2]>>, u)
    /\ 2 \in Range(getUnenrichedRows(TheSheet, "cnpj"))

(* Enrichment passes over three eligible rows, each started after the one
   before has returned, with progress callbacks that may throw and
   cancellations of the pass in flight.  Every outstanding registry lookup
   eventually returns or fails: weak fairness of the return of each batch's current lookup.
   LookupSettles(s, b) is enabled exactly when batch b of session s has a
   lookup outstanding, and it always changes the session, so
   WF_vars(LookupSettles(s, b)) is written out with that state predicate in
   the place of ENABLED <<LookupSettles(s, b)>>_vars *)
LiveRows == <<RowAna, RowBob, RowAna>>
SessionSlots == 1..MaxPipelineCommands
BatchSlots == 1..Len(LiveRows)

LiveOptions == { [batchSize |-> 1, concurrency |-> 2], [batchSize |-> 2, concurrency |-> 1] }

InitLive ==
    /\ InitWith({LiveRows}, MaxPipelineCommands) /\ PresenceIdle /\ ValidatorIdle
    /\ options \in LiveOptions

LookupSettles(s, b) ==
    /\ s \in DOMAIN sessions
    /\ b \in DOMAIN sessions[s].batch
    /\ \/ \E o \in Outcomes : LookupReturns(s, b, o)
       \/ CallbackThrows(s, b)

EnrichSheetInTurn ==
    /\ \A s \in DOMAIN sessions : sessions[s].pc = "done"
    /\ EnrichSheet

(* cancel-enrichment for a pass that has not returned, at most once per
   pass *)
CancelInFlight(s) ==
    /\ sessions[s].pc # "done"
    /\ ~sessions[s].cancelReq
    /\ sessions' = [sessions EXCEPT ![s] = cancelEnrichment(@)]
    /\ UNCHANGED <<sheets, operations, nmut, lastOp, appliedRows, budget, options, reply,
                   presence, event, probe, sockets, registry>>

NextLive ==
    \/ EnrichSheetInTurn
    \/ \E s \in SessionSlots, b \in BatchSlots : LookupSettles(s, b)
    \/ \E s \in DOMAIN sessions : CancelInFlight(s)

LookupPending(s, b) ==
    /\ s \in DOMAIN sessions
    /\ b \in DOMAIN sessions[s].batch
    /\ b \in InFlight(sessions[s])

LookupEventuallySettles(s, b) ==
    \/ []<>(~LookupPending(s, b))
    \/ []<><<LookupSettles(s, b)>>_vars

SpecLive ==
    /\ InitLive
    /\ [][NextLive]_vars
    /\ \A s \in SessionSlots, b \in BatchSlots : LookupEventuallySettles(s, b)

TerminalStatuses == {"completed", "cancelled", "error"}

(* startEnrichment of session s has returned or rejected and the session's
   status is terminal *)
Returned(s) ==
    /\ s \in DOMAIN sessions
    /\ sessions[s].pc = "done"
    /\ sessions[s].status \in TerminalStatuses

(* C38: with batchSize >= 1, concurrency >= 1 and lookups that all return
   or fail, every started pass eventually returns or rejects with its
   session in a terminal status, and a session whose pass has returned is
   never pending or processing. *)
C38_EveryPassReturns ==
    /\ \A s \in SessionSlots : (s \in DOMAIN sessions) ~> Returned(s)
    /\ [](\A s \in DOMAIN sessions : sessions[s].pc = "done" => Returned(s))

(* a pass over three batches, two at a time, has returned completed with
   every lookup returned *)
C38_Witness ==
    /\ Len(sessions) = 1
    /\ Returned(1)
    /\ InFlight(sessions[1]) = {}
    /\ Len(sessions[1].batches) = 3
    /\ sessions[1].status = "completed"
    /\ sessions[1].processed = 3

(* C39: after every sequence of store operations metadata.totalRows is the
   number of rows and metadata.totalColumns the number of columns. *)
C39_MetadataCountsAgree ==
    /\ TheSheet.totalRows = Len(TheSheet.rows)
    /\ TheSheet.totalColumns = Len(TheSheet.columns)

(* an update-cell has grown an empty document to three rows, and an applied
   result has created the column of the error payload *)
C39_Witness ==
    /\ lastOp.op = "applyEnrichmentResults"
    /\ HasColumn(TheSheet, "error")
    /\ TheSheet.totalRows = 3
    /\ TheSheet.rows[1] = EmptyRow
    /\ TheSheet.totalColumns = Len(TheSheet.columns)

(* C40: the presence indexes agree after every sequence of join, leave and
   update-cursor calls: user u is among the active users of document d
   exactly when d is in the list of u's documents, and no document is twice
   in a user's list (the active users of a document are the keys of a Map,
   each held once). *)
C40_PresenceIndexesAgree ==
    \A u \in Users :
        LET userSheets == getUserActiveSheets(presence, u)
        IN  /\ \A d \in PresenceDocs :
                  (u \in getActiveUsers(presence, d)) <=> (d \in Range(userSheets))
            /\ \A i, j \in DOMAIN userSheets : userSheets[i] = userSheets[j] => i = j

(* a user who was already in a document has joined it again, while in two
   documents *)
C40_Witness ==
    /\ event.op = "userJoinSheet" /\ event.joined
    /\ Len(getUserActiveSheets(presence, event.userId)) = 2
    /\ event.userId \in getActiveUsers(presence, event.sheetId)

=============================================================================
